---------------------------- MODULE Spec2Model ----------------------------
(***************************************************************************)
(* A model of the ingestion and archival pipeline of the energy-data       *)
(* harvester (src/src/data_import_tools.py, src/src/database_tools.py,     *)
(* src/src/utils/decorators.py, src/safe_requests.py).                     *)
(*                                                                         *)
(* The program is strictly sequential, and its components touch disjoint   *)
(* state, so the module holds one specification per component:             *)
(*   SpecStore    insert_batch on the relational store                     *)
(*   SpecRetry    the retry_on_failure wrapper                             *)
(*   SpecForecast import_forecast / fetch_forecast_day / safe_requests_get *)
(*   SpecArchive  file_needs_zip / zip_forecast_data / unzip_forecast_data *)
(*   SpecUpdate   update_data with import_belpex in detail                 *)
(*   SpecCompaction zip_forecast_data, one archive member at a time        *)
(*   SpecSafeGet  safe_requests_get on its own                             *)
(*   SpecConvert  convert_elexys_xlsx_to_csv                               *)
(*   SpecLoader, SpecParse  process_directory and parse_record             *)
(*   SpecRange    get_belpex_date_range                                    *)
(*   SpecRuns     update_data for the wind forecasts, run after run        *)
(*   SpecLatest   get_latest_available_year_month                          *)
(*   SpecLegacy   import_belpex of the older src/data_import_tools.py      *)
(* Every specification leaves the variables of the other components at     *)
(* their idle values.                                                      *)
(***************************************************************************)
EXTENDS Integers, Sequences, FiniteSets, TLC

VARIABLES
    \* ---- relational store (database_tools.py) ----
    model,          \* the SQLAlchemy model (table) the loader writes to
    table,          \* the rows of that table, in insertion (id) order
    lastCount,      \* the value returned by the last insert_batch call
    lastPath,       \* "none" | "batch" | "fallback": the path the last call took
    lastDup,        \* the last call offered a row whose key was already stored
                    \* with other values
    \* ---- retry_on_failure wrapper (utils/decorators.py) ----
    tries, delay, backoff,  \* the decorator's arguments
    _tries, _delay,         \* the wrapper's local copies
    wpc,            \* where the wrapper is: "idle" | "test" | "try" | "sleep" |
                    \* "last" | "done"
    bodyPc,         \* the wrapped function: "idle" | "start" | ... | "returned" |
                    \* "raised" (an allowed exception) | "raised_other"
    events,         \* what the current wrapper call did: invocations and sleeps
    result,         \* how the last wrapper call ended: "none" | "returned" |
                    \* "raised"

    \* ---- import_forecast / fetch_forecast_day / safe_requests_get ----
    numDays,        \* the days of the month being imported: 1..numDays
    apiCount,       \* day -> the number of records the API holds for it
    apiMode,        \* "up" | "down" (every GET fails)
    faults,         \* the faults the API may still show while it is up
    files,          \* day -> the day's JSON file in the year folder
    date_str,       \* the day the loop of import_forecast is at
    all_records,    \* fetch_forecast_day: the pages collected so far
    offset,         \* fetch_forecast_day: the offset cursor
    requests,       \* the safe_requests_get calls of the current
                    \* fetch_forecast_day, each with the GETs it has made
    httpTries,      \* safe_requests_get: _tries
    gets,           \* HTTP GETs made since import_forecast was called
    hadAllFiles,    \* every day had its file when import_forecast was called
    noData,         \* the days the running call has printed "Geen data" for
    \* ---- the archive of one forecast type and year ----
    clock,          \* time.time(), in seconds
    yearDirExists,  \* the year directory <type_folder>/<year> exists
    yearDir,        \* file name -> the file of that name in the year directory
    bundle,         \* the bundle <type_folder>/<type>_<year>.zip
    zipped,         \* the JSON files of the year directory as they were when
                    \* the bundle was last written
    lastOp,         \* the operation that has just run
    \* ---- the writing of a bundle, step by step ----
    zpc,            \* "idle", "writing" (the ZipFile is open), "crashed"
    toWrite,        \* the JSON files still to be written to the open ZipFile
    prevBundle,     \* the bundle as it was when the ZipFile was opened
    \* ---- update_data and the import_belpex it calls ----
    today,          \* datetime.today(): [year, month, day]
    from_year,      \* the arguments of update_data (NULL: not given)
    to_year,
    data_type,
    upc,            \* the position in update_data
    year,           \* the loop variables of update_data
    month,
    dtype,          \* the position in import_funcs, 1..3
    counter,        \* update_data's counter
    invoked,        \* the fetch calls made so far: <<year, month, kind>>
    reported,       \* "Geen data beschikbaar" has been printed
    bpc,            \* the position in the body of import_belpex
    pending,        \* an exception is on its way out of the try block
    csv,            \* Belpex_<year><month>.csv exists
    xlsx,           \* what Belpex_<year><month>.xlsx holds, or "absent"
    download,       \* what the file of the generic download name holds
    popup,          \* the popup of the export page: "none", "shown", "closed"
    sessions,       \* the browser sessions that are open
    opened,         \* the browser sessions the current call has started
    exportOutcome,  \* how the current attempt of import_belpex came out
    \* ---- convert_elexys_xlsx_to_csv on the rows of one export ----
    period,         \* the arguments year and month
    sheet,          \* the data rows of the xlsx: Datum and Time, Euro
    csvFile,        \* the csv: whether it was written, and its rows
    logged,         \* what the conversion printed last
    cpc,            \* "idle", "called", "done"
    \* ---- process_directory ----
    batch_size,     \* the argument batch_size
    tree,           \* the year directories in sorted order, with their files
    lpc,            \* the position in process_directory
    ret,            \* where insert_batch was called from
    yi,             \* the position in sorted(os.listdir(path))
    fi,             \* the position in all_files
    ri,             \* the position in records
    year_batch,     \* the list batch of process_directory
    pendingCount,   \* the count the running insert_batch will return
    inserted_records,
    total_records,
    stored,         \* the rows of the table that are committed
    flushed,        \* the batches handed to insert_batch: [year, rows]
    reports,        \* the line printed per year: [year, inserted, total]
    \* ---- get_belpex_date_range (data_import_tools.py) ----
    arg_year, arg_month,    \* the arguments year and month
    rpc,            \* "idle" | "from" | "until" | "returned"
    from_date,      \* the text of from_date, <<>> before it is computed
    until_date,     \* the text of until_date, <<>> before it is computed
    \* ---- update_data called again and again ----
    bundleBefore,   \* the bundle as it was when update_data was last called
    \* ---- get_latest_available_year_month (data_import_tools.py) ----
    arg_today,      \* the argument today
    gpc,            \* "idle" | "returned"
    returned_period \* the pair returned, <<>> before the return

storeVars == <<model, table, lastCount, lastPath, lastDup>>
wrapVars  == <<tries, delay, backoff, _tries, _delay, wpc, bodyPc, events, result>>
fcVars    == <<numDays, apiCount, apiMode, faults, files, date_str, all_records,
               offset, requests, httpTries, gets, hadAllFiles, noData>>

archVars  == <<clock, yearDirExists, yearDir, bundle, zipped, lastOp>>
zipVars   == <<zpc, toWrite, prevBundle>>

updVars   == <<today, from_year, to_year, data_type, upc, year, month, dtype,
               counter, invoked, reported, bpc, pending, csv, xlsx,
               download, popup, sessions, opened, exportOutcome>>

inputVars == <<today, from_year, to_year, data_type>>
loopVars  == <<upc, year, month, dtype, counter, invoked, reported>>
belVars   == <<bpc, pending, csv, xlsx, download, popup, sessions, opened,
               exportOutcome>>

convVars  == <<period, sheet, csvFile, logged, cpc>>

loadVars  == <<batch_size, tree, lpc, ret, yi, fi, ri, year_batch, pendingCount,
               inserted_records, total_records, stored, flushed, reports>>

runVars   == <<bundleBefore>>

latestVars == <<arg_today, gpc, returned_period>>

rangeVars == <<arg_year, arg_month, rpc, from_date, until_date>>

vars == <<storeVars, wrapVars, fcVars, archVars, zipVars, updVars, convVars,
          loadVars, rangeVars, runVars, latestVars>>

NULL == "NULL"

\* settings.py
DEFAULT_ATTEMPTS == 3
RETRY_DELAY == 5

(***************************************************************************)
(* The idle values of each component's variables.                          *)
(***************************************************************************)
IdleStore ==
    /\ model = "WindData"
    /\ table = <<>>
    /\ lastCount = 0
    /\ lastPath = "none"
    /\ lastDup = FALSE

IdleWrapper ==
    /\ tries = DEFAULT_ATTEMPTS /\ delay = RETRY_DELAY /\ backoff = 1
    /\ _tries = DEFAULT_ATTEMPTS /\ _delay = RETRY_DELAY
    /\ wpc = "idle" /\ bodyPc = "idle" /\ events = <<>> /\ result = "none"

IdleForecast ==
    /\ numDays = 0 /\ apiCount = <<>> /\ apiMode = "up" /\ faults = 0
    /\ files = <<>> /\ date_str = 0 /\ all_records = <<>> /\ offset = 0
    /\ requests = <<>> /\ httpTries = 0 /\ gets = 0 /\ hadAllFiles = FALSE
    /\ noData = {}

\* A file that does not exist.
Absent == [exists |-> FALSE, content |-> 0, mtime |-> 0]

\* The file names of the year directory: the days' JSON files and one file
\* that is no JSON file.
JsonNames == {1, 2}
OtherName == 0
Names     == JsonNames \cup {OtherName}

NoBundle == [exists |-> FALSE, mtime |-> 0, members |-> <<>>]

IdleArchive ==
    /\ clock = 0 /\ yearDirExists = FALSE
    /\ yearDir = [n \in Names |-> Absent]
    /\ bundle = NoBundle
    /\ zipped = [n \in JsonNames |-> Absent]
    /\ lastOp = "none"

IdleZip == zpc = "idle" /\ toWrite = {} /\ prevBundle = NoBundle

NoCsv == [exists |-> FALSE, rows |-> <<>>]

IdleLoader ==
    /\ batch_size = 0 /\ tree = <<>> /\ lpc = "idle" /\ ret = "none"
    /\ yi = 0 /\ fi = 0 /\ ri = 0 /\ year_batch = <<>> /\ pendingCount = 0
    /\ inserted_records = 0 /\ total_records = 0
    /\ stored = <<>> /\ flushed = <<>> /\ reports = <<>>

IdleRuns == bundleBefore = [exists |-> FALSE, mtime |-> 0, members |-> <<>>]

IdleLatest ==
    /\ arg_today = [year |-> 2025, month |-> 3, day |-> 5]
    /\ gpc = "idle" /\ returned_period = <<>>

IdleRange ==
    /\ arg_year = 0 /\ arg_month = 0 /\ rpc = "idle"
    /\ from_date = <<>> /\ until_date = <<>>

IdleConvert ==
    /\ period = [year |-> 0, month |-> 0] /\ sheet = <<>>
    /\ csvFile = NoCsv /\ logged = "none" /\ cpc = "idle"

IdleUpdate ==
    /\ today = [year |-> 2025, month |-> 3, day |-> 5]
    /\ from_year = <<>> /\ to_year = <<>> /\ data_type = "all"
    /\ upc = "idle" /\ year = 0 /\ month = 0 /\ dtype = 0
    /\ counter = 0 /\ invoked = <<>> /\ reported = FALSE
    /\ bpc = "none" /\ pending = FALSE /\ csv = FALSE /\ xlsx = "absent"
    /\ download = "absent" /\ popup = "none"
    /\ sessions = 0 /\ opened = 0 /\ exportOutcome = "none"

(***************************************************************************)
(*                     The retry_on_failure wrapper                        *)
(***************************************************************************)

MaxTries == 4       \* the largest tries argument the retry model is given

Delays   == {2, RETRY_DELAY}
Backoffs == {1, 2}

\* The events of a wrapper call: an invocation of the wrapped function, how an
\* invocation ended ("returned" | "raised" | "raised_other"), a sleep of d.
CallEvent     == [ev |-> "call", d |-> 0]
EndEvent(how) == [ev |-> how, d |-> 0]
SleepEvent(d) == [ev |-> "sleep", d |-> d]

\* The wrapper is entered: _tries, _delay = tries, delay.
WrapperEnter ==
    /\ wpc \in {"idle", "done"}
    /\ _tries' = tries
    /\ _delay' = delay
    /\ events' = <<>>
    /\ result' = "none"
    /\ wpc' = "test"
    /\ UNCHANGED <<tries, delay, backoff, bodyPc>>

WhileGuardOffByOne(t) == t > 0

\* while _tries > 1
WhileGuard(t) == t > 1

\* The loop test, and the invocation it leads to: func(*args, **kwargs) inside
\* the try of the loop, or the last one after the loop.
WrapperInvoke ==
    /\ wpc = "test"
    /\ wpc' = IF WhileGuard(_tries) THEN "try" ELSE "last"
    /\ bodyPc' = "start"
    /\ events' = Append(events, CallEvent)
    /\ UNCHANGED <<tries, delay, backoff, _tries, _delay, result>>

\* return func(*args, **kwargs), the function having returned.
WrapperReturn ==
    /\ wpc \in {"try", "last"}
    /\ bodyPc = "returned"
    /\ wpc' = "done"
    /\ result' = "returned"
    /\ bodyPc' = "idle"
    /\ events' = Append(events, EndEvent("returned"))
    /\ UNCHANGED <<tries, delay, backoff, _tries, _delay>>

EveryException == {"raised", "raised_other"}

\* allowed_exceptions: the exceptions the except clause of the loop catches
\* ("raised"); "raised_other" is an exception outside them.
allowed_exceptions == {"raised"}

\* except allowed_exceptions: _tries -= 1
WrapperExcept ==
    /\ wpc = "try"
    /\ bodyPc \in allowed_exceptions
    /\ _tries' = _tries - 1
    /\ wpc' = "sleep"
    /\ bodyPc' = "idle"
    /\ events' = Append(events, EndEvent(bodyPc))
    /\ UNCHANGED <<tries, delay, backoff, _delay, result>>

NextDelayDoubling(d, b) == d * 2

\* _delay *= backoff
NextDelay(d, b) == d * b

\* time.sleep(_delay); _delay *= backoff
WrapperSleep ==
    /\ wpc = "sleep"
    /\ events' = Append(events, SleepEvent(_delay))
    /\ _delay' = NextDelay(_delay, backoff)
    /\ wpc' = "test"
    /\ UNCHANGED <<tries, delay, backoff, _tries, bodyPc, result>>

\* An exception leaves the wrapper: one outside allowed_exceptions raised in
\* the loop, or any exception of the last, unguarded invocation.
WrapperPropagate ==
    /\ \/ wpc = "try" /\ bodyPc \in {"raised", "raised_other"} \ allowed_exceptions
       \/ wpc = "last" /\ bodyPc \in {"raised", "raised_other"}
    /\ wpc' = "done"
    /\ result' = "raised"
    /\ bodyPc' = "idle"
    /\ events' = Append(events, EndEvent(bodyPc))
    /\ UNCHANGED <<tries, delay, backoff, _tries, _delay>>

WrapperStep ==
    \/ WrapperInvoke
    \/ WrapperReturn
    \/ WrapperExcept
    \/ WrapperSleep
    \/ WrapperPropagate

\* ---- the wrapper around an arbitrary operation ----

InitRetry ==
    /\ tries \in 0..MaxTries
    /\ delay \in Delays
    /\ backoff \in Backoffs
    /\ _tries = tries /\ _delay = delay
    /\ wpc = "idle" /\ bodyPc = "idle" /\ events = <<>> /\ result = "none"

\* The wrapped operation runs: it returns, raises an exception of
\* allowed_exceptions, or raises another one.
Func ==
    /\ bodyPc = "start"
    /\ bodyPc' \in {"returned", "raised", "raised_other"}
    /\ UNCHANGED <<tries, delay, backoff, _tries, _delay, wpc, events, result>>

RetryCall   == WrapperEnter /\ UNCHANGED <<latestVars, runVars, rangeVars, loadVars, convVars, storeVars, fcVars, archVars, zipVars, updVars>>
RetryInvoke == WrapperInvoke /\ UNCHANGED <<latestVars, runVars, rangeVars, loadVars, convVars, storeVars, fcVars, archVars, zipVars, updVars>>
RetryFunc   == Func /\ UNCHANGED <<latestVars, runVars, rangeVars, loadVars, convVars, storeVars, fcVars, archVars, zipVars, updVars>>
RetryReturn == WrapperReturn /\ UNCHANGED <<latestVars, runVars, rangeVars, loadVars, convVars, storeVars, fcVars, archVars, zipVars, updVars>>
RetryExcept == WrapperExcept /\ UNCHANGED <<latestVars, runVars, rangeVars, loadVars, convVars, storeVars, fcVars, archVars, zipVars, updVars>>
RetrySleep  == WrapperSleep /\ UNCHANGED <<latestVars, runVars, rangeVars, loadVars, convVars, storeVars, fcVars, archVars, zipVars, updVars>>
RetryPropagate == WrapperPropagate /\ UNCHANGED <<latestVars, runVars, rangeVars, loadVars, convVars, storeVars, fcVars, archVars, zipVars, updVars>>

NextRetry ==
    \/ RetryCall
    \/ RetryInvoke
    \/ RetryFunc
    \/ RetryReturn
    \/ RetryExcept
    \/ RetrySleep
    \/ RetryPropagate

RetryInit == InitRetry /\ IdleStore /\ IdleForecast /\ IdleArchive /\ IdleUpdate /\ IdleZip /\ IdleConvert /\ IdleLoader /\ IdleRange /\ IdleRuns /\ IdleLatest

SpecRetry == RetryInit /\ [][NextRetry]_vars

RECURSIVE Pow(_, _)
Pow(b, k) == IF k = 0 THEN 1 ELSE b * Pow(b, k - 1)

\* What a wrapper call with tries = N >= 1 does when every invocation raises a
\* recoverable failure: N invocations, each raising, with a sleep of
\* d * b^(k-1) after the k-th of the first N-1.
AlwaysFailingRun(N, d, b) ==
    [i \in 1..(3 * N - 1) |->
        IF i % 3 = 1 THEN CallEvent
        ELSE IF i % 3 = 2 THEN EndEvent("raised")
        ELSE SleepEvent(d * Pow(b, (i \div 3) - 1))]

EveryInvocationFailed ==
    \A i \in 1..Len(events) : events[i].ev \notin {"returned", "raised_other"}

\* C3: with tries = N >= 1 and an operation that raises a recoverable failure
\* on every invocation, the wrapper invokes it exactly N times, sleeps exactly
\* N-1 times, each sleep between two invocations, the k-th for d * b^(k-1), and
\* the failure of the N-th invocation reaches the caller.
C3_RetryBound ==
    (wpc = "done" /\ tries >= 1 /\ EveryInvocationFailed)
        => /\ events = AlwaysFailingRun(tries, delay, backoff)
           /\ result = "raised"

\* An always-failing run with three invocations and a growing delay has ended.
C3_Witness ==
    /\ wpc = "done" /\ EveryInvocationFailed
    /\ tries = 3 /\ backoff = 2 /\ delay = 2
    /\ Len(events) = 8 /\ events[6] = SleepEvent(4)
    /\ result = "raised"

(***************************************************************************)
(*         import_forecast, fetch_forecast_day, safe_requests_get          *)
(***************************************************************************)

MaxDays   == 2      \* days in the month of the forecast model
MaxFaults == 3      \* faults the API shows in one run while it is up

limit == 100        \* fetch_forecast_day: the page size

\* The numbers of records the API may hold for a day.
RecordCounts == {0, 100, 250}

\* A page of the API: the n records from offset on.
Page(o, n) == [offset |-> o, n |-> n]

\* The API's answer to a request for the records of day d from offset o on.
ApiPage(d, o) ==
    LET left == apiCount[d] - o
    IN Page(o, IF left <= 0 THEN 0 ELSE IF left >= limit THEN limit ELSE left)

NoFile == [exists |-> FALSE, records |-> <<>>]
JsonFile(recs) == [exists |-> TRUE, records |-> recs]

\* A file written before the run (by an earlier run, or extracted from a bundle).
EarlierFile == JsonFile(<<Page(0, 7)>>)

RECURSIVE RecordsIn(_)
RecordsIn(pages) ==
    IF pages = <<>> THEN 0 ELSE Head(pages).n + RecordsIn(Tail(pages))

InitForecast ==
    /\ numDays \in 1..MaxDays
    /\ apiCount \in [1..numDays -> RecordCounts]
    /\ apiMode \in {"up", "down"}
    /\ faults = MaxFaults
    /\ files \in [1..numDays -> {NoFile, EarlierFile}]
    /\ date_str = 0 /\ all_records = <<>> /\ offset = 0
    /\ requests = <<>> /\ httpTries = 0 /\ gets = 0 /\ hadAllFiles = FALSE
    /\ noData = {}

\* import_forecast(year, month, ...) is called: the wrapper is entered.
ImportForecastCall ==
    /\ WrapperEnter
    /\ gets' = 0
    /\ hadAllFiles' = \A d \in 1..numDays : files[d].exists
    /\ noData' = {}
    /\ UNCHANGED <<numDays, apiCount, apiMode, faults, files, date_str,
                   all_records, offset, requests, httpTries>>

\* os.makedirs(year_folder); the day loop starts at the first day.
ImportForecastStart ==
    /\ bodyPc = "start"
    /\ date_str' = 1
    /\ bodyPc' = "day"
    /\ UNCHANGED <<numDays, apiCount, apiMode, faults, files, all_records,
                   offset, requests, httpTries, gets, hadAllFiles, noData>>
    /\ UNCHANGED <<tries, delay, backoff, _tries, _delay, wpc, events, result>>

SkipNever(f) == FALSE

\* if os.path.exists(output_path): continue
SkipDay(f) == f.exists

\* One turn of the day loop up to the call of fetch_forecast_day: the loop
\* ends, or the day is skipped, or fetch_forecast_day is entered.
ImportForecastDay ==
    /\ bodyPc = "day"
    /\ IF date_str > numDays
       THEN /\ bodyPc' = "returned"
            /\ UNCHANGED <<date_str, all_records, offset, requests>>
       ELSE IF SkipDay(files[date_str])
       THEN /\ date_str' = date_str + 1
            /\ UNCHANGED <<bodyPc, all_records, offset, requests>>
       ELSE /\ all_records' = <<>>
            /\ offset' = 0
            /\ requests' = <<>>
            /\ bodyPc' = "request"
            /\ UNCHANGED date_str
    /\ UNCHANGED <<numDays, apiCount, apiMode, faults, files, httpTries, gets,
                   hadAllFiles, noData>>
    /\ UNCHANGED <<tries, delay, backoff, _tries, _delay, wpc, events, result>>

\* fetch_forecast_day calls safe_requests_get(url, params, tries=DEFAULT_ATTEMPTS,
\* delay=RETRY_DELAY): _tries = tries.
SafeRequestsGetCall ==
    /\ bodyPc = "request"
    /\ httpTries' = DEFAULT_ATTEMPTS
    /\ requests' = Append(requests, [offset |-> offset, gets |-> 0, last |-> "none"])
    /\ bodyPc' = "get"
    /\ UNCHANGED <<numDays, apiCount, apiMode, faults, files, date_str,
                   all_records, offset, gets, hadAllFiles, noData>>
    /\ UNCHANGED <<tries, delay, backoff, _tries, _delay, wpc, events, result>>

\* What one GET can come to: "ok" (status 200 and a JSON body), "status" (a
\* status that raise_for_status lets pass and that is not 200), "bad_json"
\* (status 200, the body is no JSON), "http_error" (a 4xx or 5xx status:
\* raise_for_status raises an HTTPError), "error" (a transport failure: another
\* RequestException).
GetOutcomes ==
    IF apiMode = "down" THEN {"error"}
    ELSE IF faults > 0 THEN {"ok", "status", "bad_json", "http_error", "error"}
    ELSE {"ok"}

HttpWhileGuardOffByOne(t) == t > 0

\* while _tries > 1 (safe_requests_get)
HttpWhileGuard(t) == t > 1

StopOnShortPage(page) == page.n < limit

\* if not data: break
StopPaging(page) == page.n = 0

FilesWithPagesSoFar(f, d, recs) ==
    IF recs = <<>> THEN f ELSE [f EXCEPT ![d] = JsonFile(recs)]

\* fetch_forecast_day keeps the pages in all_records and writes no file.
FilesAfterGet(f, d, recs) == f

\* requests.get inside safe_requests_get, and what fetch_forecast_day and
\* import_forecast do with a response once safe_requests_get returns one.
HttpGet ==
    /\ bodyPc = "get"
    /\ gets' = gets + 1
    /\ \E outcome \in GetOutcomes :
        /\ requests' = [requests EXCEPT ![Len(requests)] =
                            [@ EXCEPT !.gets = @ + 1, !.last = outcome]]
        /\ faults' = IF outcome = "ok" \/ apiMode = "down" THEN faults ELSE faults - 1
        /\ CASE outcome \in {"error", "http_error"} ->
                \* except RequestException in the loop; the last GET is unguarded
                /\ bodyPc' = IF HttpWhileGuard(httpTries) THEN "http_sleep" ELSE "raised"
                /\ UNCHANGED <<all_records, offset>>
             [] outcome = "bad_json" ->
                \* response.json() raises
                /\ bodyPc' = "raised"
                /\ UNCHANGED <<all_records, offset>>
             [] outcome = "status" ->
                \* if response.status_code != 200: break
                /\ bodyPc' = "save"
                /\ UNCHANGED <<all_records, offset>>
             [] outcome = "ok" ->
                LET data == ApiPage(date_str, offset) IN
                IF StopPaging(data)
                THEN /\ bodyPc' = "save"
                     /\ UNCHANGED <<all_records, offset>>
                ELSE /\ all_records' = Append(all_records, data)
                     /\ offset' = offset + limit
                     /\ bodyPc' = "request"
    /\ files' = FilesAfterGet(files, date_str, all_records')
    /\ UNCHANGED <<numDays, apiCount, apiMode, date_str, httpTries,
                   hadAllFiles, noData>>
    /\ UNCHANGED <<tries, delay, backoff, _tries, _delay, wpc, events, result>>

\* time.sleep(delay); _tries -= 1
HttpSleep ==
    /\ bodyPc = "http_sleep"
    /\ httpTries' = httpTries - 1
    /\ bodyPc' = "get"
    /\ UNCHANGED <<numDays, apiCount, apiMode, faults, files, date_str,
                   all_records, offset, requests, gets, hadAllFiles, noData>>
    /\ UNCHANGED <<tries, delay, backoff, _tries, _delay, wpc, events, result>>

\* fetch_forecast_day has returned all_records: save_forecast_json if there
\* are any, and on to the next day.
SaveForecastJson ==
    /\ bodyPc = "save"
    /\ files' = IF all_records # <<>>
                THEN [files EXCEPT ![date_str] = JsonFile(all_records)]
                ELSE files
    /\ noData' = IF all_records # <<>> THEN noData ELSE noData \cup {date_str}
    /\ date_str' = date_str + 1
    /\ bodyPc' = "day"
    /\ UNCHANGED <<numDays, apiCount, apiMode, faults, all_records, offset,
                   requests, httpTries, gets, hadAllFiles>>
    /\ UNCHANGED <<tries, delay, backoff, _tries, _delay, wpc, events, result>>

FcCall      == ImportForecastCall /\ UNCHANGED <<latestVars, runVars, rangeVars, loadVars, convVars, storeVars, archVars, zipVars, updVars>>
FcStart     == ImportForecastStart /\ UNCHANGED <<latestVars, runVars, rangeVars, loadVars, convVars, storeVars, archVars, zipVars, updVars>>
FcDay       == ImportForecastDay /\ UNCHANGED <<latestVars, runVars, rangeVars, loadVars, convVars, storeVars, archVars, zipVars, updVars>>
FcRequest   == SafeRequestsGetCall /\ UNCHANGED <<latestVars, runVars, rangeVars, loadVars, convVars, storeVars, archVars, zipVars, updVars>>
FcGet       == HttpGet /\ UNCHANGED <<latestVars, runVars, rangeVars, loadVars, convVars, storeVars, archVars, zipVars, updVars>>
FcHttpSleep == HttpSleep /\ UNCHANGED <<latestVars, runVars, rangeVars, loadVars, convVars, storeVars, archVars, zipVars, updVars>>
FcSave      == SaveForecastJson /\ UNCHANGED <<latestVars, runVars, rangeVars, loadVars, convVars, storeVars, archVars, zipVars, updVars>>
FcInvoke    == WrapperInvoke /\ UNCHANGED <<latestVars, runVars, rangeVars, loadVars, convVars, storeVars, fcVars, archVars, zipVars, updVars>>
FcReturn    == WrapperReturn /\ UNCHANGED <<latestVars, runVars, rangeVars, loadVars, convVars, storeVars, fcVars, archVars, zipVars, updVars>>
FcExcept    == WrapperExcept /\ UNCHANGED <<latestVars, runVars, rangeVars, loadVars, convVars, storeVars, fcVars, archVars, zipVars, updVars>>
FcSleep     == WrapperSleep /\ UNCHANGED <<latestVars, runVars, rangeVars, loadVars, convVars, storeVars, fcVars, archVars, zipVars, updVars>>
FcPropagate == WrapperPropagate /\ UNCHANGED <<latestVars, runVars, rangeVars, loadVars, convVars, storeVars, fcVars, archVars, zipVars, updVars>>

NextForecast ==
    \/ FcCall
    \/ FcStart
    \/ FcDay
    \/ FcRequest
    \/ FcGet
    \/ FcHttpSleep
    \/ FcSave
    \/ FcInvoke
    \/ FcReturn
    \/ FcExcept
    \/ FcSleep
    \/ FcPropagate

ForecastInit == InitForecast /\ IdleWrapper /\ IdleStore /\ IdleArchive /\ IdleUpdate /\ IdleZip /\ IdleConvert /\ IdleLoader /\ IdleRange /\ IdleRuns /\ IdleLatest

SpecForecast == ForecastInit /\ [][NextForecast]_vars

\* fetch_forecast_day is running for the day date_str.
InFetchForecastDay == bodyPc \in {"request", "get", "http_sleep", "save"}

\* C4: import_forecast makes no HTTP request for a day whose file exists and
\* never rewrites an existing file; a call that finds a file for every day of
\* the month makes no network call at all.
C4_IdempotentRefetch ==
    /\ [](InFetchForecastDay => ~files[date_str].exists)
    /\ [](hadAllFiles => gets = 0)
    /\ [][\A d \in 1..numDays : files[d].exists => files'[d] = files[d]]_vars

\* A second call has ended that found the files the first one wrote.
C4_Witness ==
    /\ wpc = "done" /\ result = "returned" /\ hadAllFiles /\ gets = 0
    /\ numDays = MaxDays
    /\ files[1] # EarlierFile /\ files[MaxDays] = EarlierFile

\* A fetch_forecast_day call that met no fault has all its answers, for a day
\* of which the API holds 250 records.
CleanFetchOf250 ==
    /\ bodyPc = "save"
    /\ apiMode = "up" /\ faults = MaxFaults
    /\ apiCount[date_str] = 250

\* C5 as stated: 250 records in pages of 100, 100 and 50 are fetched with
\* exactly 3 requests, at offsets 0, 100, 200.
C5_ThreeRequests ==
    CleanFetchOf250 =>
        /\ RecordsIn(all_records) = 250
        /\ [i \in 1..Len(requests) |-> requests[i].offset] = <<0, 100, 200>>

\* C5, amended: 250 records in pages of 100, 100 and 50 are fetched with
\* exactly 4 requests of one GET each, at offsets 0, 100, 200 and 300: the
\* loop ends on the empty page the fourth one returns.
C5_FourRequests ==
    CleanFetchOf250 =>
        /\ RecordsIn(all_records) = 250
        /\ all_records = <<Page(0, 100), Page(100, 100), Page(200, 50)>>
        /\ requests = <<[offset |-> 0, gets |-> 1, last |-> "ok"],
                        [offset |-> 100, gets |-> 1, last |-> "ok"],
                        [offset |-> 200, gets |-> 1, last |-> "ok"],
                        [offset |-> 300, gets |-> 1, last |-> "ok"]>>

C5_Witness == CleanFetchOf250 /\ date_str = 1 /\ gets = 4

\* The last GET of the request under way was answered with a status other
\* than 200: one that raise_for_status lets pass, or a 4xx or 5xx.
NonSuccessResponse ==
    /\ requests # <<>>
    /\ requests[Len(requests)].last \in {"status", "http_error"}

\* C11: fetch_forecast_day does not raise on a response that is no success,
\* a 4xx or 5xx status that lasts through the GETs of safe_requests_get
\* included: it stops paging and returns the records of the earlier pages.
C11_NonSuccessNeverRaises ==
    [][(bodyPc = "get" /\ NonSuccessResponse' /\ bodyPc' # "http_sleep")
          => (bodyPc' = "save" /\ all_records' = all_records)]_vars

\* ---- safe_requests_get(url, tries=tries, delay=delay) on its own ----

GetEvent(outcome) == [ev |-> outcome, d |-> 0]

\* What the endpoint answers: every GET fails ("down": a transport error or
\* an error status), or any answer.
SafeGetOutcomes ==
    IF apiMode = "down" THEN {"error", "http_error"}
    ELSE {"ok", "status", "http_error", "error"}

\* requests.get and raise_for_status, in the loop and after it.
SafeGet ==
    /\ bodyPc = "get"
    /\ \E outcome \in SafeGetOutcomes :
          /\ events' = Append(events, GetEvent(outcome))
          /\ IF outcome \in {"error", "http_error"}
             THEN /\ bodyPc' = IF HttpWhileGuard(httpTries)
                               THEN "http_sleep" ELSE "raised"
                  /\ UNCHANGED result
             ELSE /\ bodyPc' = "returned"
                  /\ result' = outcome
    /\ UNCHANGED <<tries, delay, httpTries>>

\* time.sleep(delay); _tries -= 1
SafeSleep ==
    /\ bodyPc = "http_sleep"
    /\ events' = Append(events, SleepEvent(delay))
    /\ httpTries' = httpTries - 1
    /\ bodyPc' = "get"
    /\ UNCHANGED <<tries, delay, result>>

SafeGetFrame ==
    UNCHANGED <<backoff, _tries, _delay, wpc, numDays, apiCount, apiMode,
                faults, files, date_str, all_records, offset, requests, gets,
                hadAllFiles, noData, storeVars, archVars, zipVars, updVars,
                convVars, loadVars, rangeVars, runVars, latestVars>>

SgGet   == SafeGet /\ SafeGetFrame
SgSleep == SafeSleep /\ SafeGetFrame

NextSafeGet == SgGet \/ SgSleep

\* safe_requests_get is called: _tries = tries.
InitSafeGet ==
    /\ tries \in 1..MaxTries
    /\ delay \in Delays
    /\ apiMode \in {"up", "down"}
    /\ httpTries = tries
    /\ bodyPc = "get" /\ events = <<>> /\ result = "none"
    /\ backoff = 1 /\ _tries = DEFAULT_ATTEMPTS /\ _delay = RETRY_DELAY
    /\ wpc = "idle"
    /\ numDays = 0 /\ apiCount = <<>> /\ faults = 0 /\ files = <<>>
    /\ date_str = 0 /\ all_records = <<>> /\ offset = 0
    /\ requests = <<>> /\ gets = 0 /\ hadAllFiles = FALSE /\ noData = {}

SafeGetInit ==
    /\ InitSafeGet /\ IdleStore /\ IdleArchive /\ IdleUpdate /\ IdleZip
    /\ IdleConvert /\ IdleLoader /\ IdleRange /\ IdleRuns /\ IdleLatest

SpecSafeGet == SafeGetInit /\ [][NextSafeGet]_vars

GetsMade == Cardinality({i \in 1..Len(events) : events[i].ev # "sleep"})

SleepsMade == {i \in 1..Len(events) : events[i].ev = "sleep"}

\* C26: against an endpoint where every GET fails, safe_requests_get with
\* tries = N >= 1 ends by raising from its N-th GET, after exactly N GETs and
\* N - 1 sleeps of delay seconds each, and does not return; against any
\* endpoint, the response it returns has a status that is no error.
C26_HttpClientRetry ==
    /\ \A i \in SleepsMade : events[i] = SleepEvent(delay)
    /\ GetsMade <= tries
    /\ apiMode = "down" => bodyPc # "returned"
    /\ (apiMode = "down" /\ bodyPc = "raised") =>
          /\ GetsMade = tries
          /\ Cardinality(SleepsMade) = tries - 1
          /\ events[Len(events)].ev \in {"error", "http_error"}
    /\ bodyPc = "returned" =>
          /\ result \in {"ok", "status"}
          /\ events[Len(events)] = GetEvent(result)

\* With tries = 3 and a delay of 2 s, three GETs have failed with two sleeps
\* of 2 s between them, and the third failure was raised.
C26_Witness ==
    /\ apiMode = "down" /\ tries = 3 /\ delay = 2 /\ bodyPc = "raised"
    /\ events = <<GetEvent("error"), SleepEvent(2), GetEvent("http_error"),
                  SleepEvent(2), GetEvent("error")>>

\* The invocations of import_forecast the wrapper has made in the running
\* call.
Attempts == Cardinality({i \in 1..Len(events) : events[i] = CallEvent})

\* C24: an exception raised by the fetch of a day makes the wrapper run the
\* day loop again from the first day, after a sleep of RETRY_DELAY seconds
\* every time, with no more than DEFAULT_ATTEMPTS invocations in all; a
\* re-run makes no request for a day whose file is there and leaves every
\* file that is there as it is.
C24_WholeMonthRetry ==
    /\ [](Attempts <= DEFAULT_ATTEMPTS)
    /\ [](\A i \in 1..Len(events) :
              events[i].ev = "sleep" => events[i] = SleepEvent(RETRY_DELAY))
    /\ [][(wpc = "try" /\ bodyPc = "raised") => wpc' = "sleep"]_vars
    /\ [][(wpc = "sleep") => (wpc' = "test" /\ Attempts < DEFAULT_ATTEMPTS)]_vars
    /\ [][bodyPc = "start" => (date_str' = 1 /\ bodyPc' = "day")]_vars
    /\ []((Attempts >= 2 /\ InFetchForecastDay) => ~files[date_str].exists)
    /\ [][Attempts >= 2 =>
             \A d \in 1..numDays : files[d].exists => files'[d] = files[d]]_vars

\* The second invocation has passed the first day, whose file the first
\* invocation wrote, without a request: the requests on record are still
\* those of the fetch of the second day that raised in the first invocation.
C24_Witness ==
    /\ numDays = 2 /\ bodyPc = "day" /\ date_str = 2
    /\ events = <<CallEvent, EndEvent("raised"), SleepEvent(RETRY_DELAY), CallEvent>>
    /\ files[1].exists /\ files[1] # EarlierFile /\ ~files[2].exists
    /\ requests # <<>> /\ requests[Len(requests)].last = "error"
    /\ requests[Len(requests)].gets = DEFAULT_ATTEMPTS

\* C25: a day whose fetch yields no record gets no file and raises nothing,
\* and no later run of the day loop in the same call of import_forecast
\* requests that day again.
C25_NoDataNotRetried ==
    /\ [][(bodyPc = "save" /\ all_records = <<>>)
             => (files' = files /\ bodyPc' = "day")]_vars
    /\ [](InFetchForecastDay => date_str \notin noData)

(***************************************************************************)
(*                         The relational store                            *)
(***************************************************************************)

\* Bounds of the store model.
MaxBatch == 2       \* rows in one insert_batch call
MaxRows  == 3       \* rows the table may hold before the model stops inserting

DateTimes == {1, 2}
Measures  == {10, 20}

Models == {"WindData", "BelpexPrice"}

\* The columns of the UNIQUE constraint of each model.
UniqueColumns(m) ==
    IF m = "WindData"
    THEN {"datetime", "region", "offshoreonshore", "gridconnectiontype"}
    ELSE {"datetime"}

\* The records insert_batch can be handed.  A record that carries a key which
\* is no column of the model is malformed: SQLAlchemy refuses to compile an
\* insert for it, in the multi-row statement and in a single-row one alike.
\* One malformed record stands for all of them (it is never stored).
WindRecords ==
    [datetime : DateTimes, region : {"Federal", NULL},
     offshoreonshore : {"Offshore"}, gridconnectiontype : {"Elia"},
     measured : Measures, malformed : {FALSE}]
    \cup
    [datetime : {1}, region : {"Federal"},
     offshoreonshore : {"Offshore"}, gridconnectiontype : {"Elia"},
     measured : {10}, malformed : {TRUE}]

\* process_belpex_directory builds its records itself: never malformed, and
\* datetime is never NULL.
BelpexRecords ==
    [datetime : DateTimes, price_eur_per_mwh : Measures, malformed : {FALSE}]

Records(m) == IF m = "WindData" THEN WindRecords ELSE BelpexRecords

SeqsUpTo(S, n) == UNION {[1..k -> S] : k \in 1..n}

Batches(m) == SeqsUpTo(Records(m), MaxBatch)

\* The columns of a record that are stored.
StoredRow(rec) == [c \in (DOMAIN rec) \ {"malformed"} |-> rec[c]]

\* datetime is declared nullable=False and always holds a parsed instant; the
\* other columns are nullable.
IsNull(c, v) == c # "datetime" /\ v = NULL

\* SQLite's UNIQUE: two rows collide when they agree on every column of the
\* constraint and none of those values is NULL (NULLs are distinct from every
\* value, another NULL included).
UniqueViolation(m, r, s) ==
    \A c \in UniqueColumns(m) : ~IsNull(c, r[c]) /\ r[c] = s[c]

Collides(m, tbl, row) ==
    \E i \in 1..Len(tbl) : UniqueViolation(m, tbl[i], row)

InsertOrReplace(m, acc, row) ==
    IF Collides(m, acc.table, row)
    THEN [table |-> [i \in 1..Len(acc.table) |->
                        IF UniqueViolation(m, acc.table[i], row)
                        THEN row ELSE acc.table[i]],
          rowcount |-> acc.rowcount + 1]
    ELSE [table |-> Append(acc.table, row), rowcount |-> acc.rowcount + 1]

\* INSERT OR IGNORE of one row into acc.table: the row is appended, and counted
\* in rowcount, unless it collides.
InsertOrIgnore(m, acc, row) ==
    IF Collides(m, acc.table, row)
    THEN acc
    ELSE [table |-> Append(acc.table, row), rowcount |-> acc.rowcount + 1]

\* The multi-row INSERT OR IGNORE ... VALUES (batch): the rows are taken in
\* order, each against the table as the earlier ones left it; rowcount is the
\* number of rows the statement added.
RECURSIVE InsertRows(_, _, _)
InsertRows(m, acc, rows) ==
    IF rows = <<>> THEN acc
    ELSE InsertRows(m, InsertOrIgnore(m, acc, StoredRow(Head(rows))), Tail(rows))

RECURSIVE InsertEachUntilError(_, _, _)
InsertEachUntilError(m, acc, rows) ==
    IF rows = <<>> THEN acc
    ELSE IF Head(rows).malformed
         THEN acc
         ELSE InsertEachUntilError(m, InsertOrIgnore(m, acc, StoredRow(Head(rows))),
                                   Tail(rows))

\* The per-row fallback loop: a malformed record raises and is skipped; a row
\* whose statement reports a rowcount adds one to inserted.
RECURSIVE InsertEach(_, _, _)
InsertEach(m, acc, rows) ==
    IF rows = <<>> THEN acc
    ELSE IF Head(rows).malformed
         THEN InsertEach(m, acc, Tail(rows))
         ELSE InsertEach(m, InsertOrIgnore(m, acc, StoredRow(Head(rows))), Tail(rows))

\* Whether the multi-row statement raises: a malformed record in the batch, or
\* a failure of the environment (envFails: too many SQL variables, a locked
\* database file).
BatchPathFails(batch, envFails) ==
    envFails \/ \E i \in 1..Len(batch) : batch[i].malformed

\* insert_batch(batch, model): the table afterwards and the returned count
\* (rowcount of the statement, or the rows counted by the fallback loop).
insert_batch(m, tbl, batch, envFails) ==
    LET start == [table |-> tbl, rowcount |-> 0]
        after == IF BatchPathFails(batch, envFails)
                 THEN InsertEach(m, start, batch)
                 ELSE InsertRows(m, start, batch)
    IN [table |-> after.table,
        count |-> after.rowcount,
        path  |-> IF BatchPathFails(batch, envFails) THEN "fallback" ELSE "batch"]

InitStore ==
    /\ model \in Models
    /\ table = <<>>
    /\ lastCount = 0
    /\ lastPath = "none"
    /\ lastDup = FALSE

\* One call of insert_batch, commit included.
InsertBatch ==
    \E batch \in Batches(model), envFails \in BOOLEAN :
        LET r == insert_batch(model, table, batch, envFails) IN
        /\ Len(table) + Len(batch) <= MaxRows
        /\ table' = r.table
        /\ lastCount' = r.count
        /\ lastPath' = r.path
        /\ lastDup' = \E i \in 1..Len(batch) :
                         /\ ~batch[i].malformed
                         /\ Collides(model, table, StoredRow(batch[i]))
                         /\ r.table = table
                         /\ \A j \in 1..Len(table) : table[j] # StoredRow(batch[i])
        /\ UNCHANGED <<model, wrapVars, fcVars, archVars, zipVars, updVars,
                       convVars, loadVars, rangeVars, runVars, latestVars>>

NextStore == InsertBatch

StoreInit == InitStore /\ IdleWrapper /\ IdleForecast /\ IdleArchive /\ IdleUpdate /\ IdleZip /\ IdleConvert /\ IdleLoader /\ IdleRange /\ IdleRuns /\ IdleLatest

SpecStore == StoreInit /\ [][NextStore]_vars

\* The natural key of two stored rows is the same: they agree on every column
\* of the UNIQUE constraint.
SameNaturalKey(m, r, s) == \A c \in UniqueColumns(m) : r[c] = s[c]

\* C1: inserting the same row (identical natural key) twice leaves exactly one
\* row in the table, and insert_batch applied a second time to an identical
\* batch returns 0 and leaves the table unchanged.
C1_DedupOnNaturalKey ==
    /\ \A i, j \in 1..Len(table) :
          i < j => ~SameNaturalKey(model, table[i], table[j])
    /\ \A batch \in Batches(model), e1, e2 \in BOOLEAN :
          LET first  == insert_batch(model, table, batch, e1)
              second == insert_batch(model, first.table, batch, e2)
          IN second.count = 0 /\ second.table = first.table

\* C2: the store is append-only and first-write-wins: every insert_batch call
\* leaves the rows already stored where and as they were (none updated, none
\* deleted, the count never decreases), also when it offers a row whose natural
\* key is stored with other values.
C2_AppendOnlyFirstWriteWins ==
    [][/\ Len(table) <= Len(table')
       /\ \A i \in 1..Len(table) : table'[i] = table[i]]_vars

\* A call has offered a row whose key was stored with other values, and the
\* table came out of it unchanged.
C2_Witness == lastDup /\ lastCount = 0 /\ Len(table) >= 1

\* The natural key of the row is stored in the table.
KeyStored(m, tbl, row) ==
    \E j \in 1..Len(tbl) : SameNaturalKey(m, tbl[j], row)

\* C21: when the multi-row insert of a batch fails, the per-row inserts add
\* every well-formed row whose natural key is not stored yet (once per key),
\* skip each malformed row on its own, add nothing else, leave the stored
\* rows alone, and the returned count is the number of rows added.
C21_BatchFallback ==
    \A batch \in Batches(model), envFails \in BOOLEAN :
        BatchPathFails(batch, envFails) =>
            LET r     == insert_batch(model, table, batch, envFails)
                added == {k \in 1..Len(r.table) : k > Len(table)}
            IN  /\ r.path = "fallback"
                /\ Len(r.table) >= Len(table)
                /\ \A j \in 1..Len(table) : r.table[j] = table[j]
                /\ r.count = Cardinality(added)
                /\ \A i \in 1..Len(batch) :
                      (~batch[i].malformed
                          /\ ~KeyStored(model, table, StoredRow(batch[i])))
                      => \E k \in added :
                            SameNaturalKey(model, r.table[k], StoredRow(batch[i]))
                /\ \A k \in added :
                      \E i \in 1..Len(batch) :
                          ~batch[i].malformed /\ r.table[k] = StoredRow(batch[i])

\* A call of insert_batch took the per-row path and added one row of its
\* batch to a table that held a row already.
C21_Witness ==
    /\ lastPath = "fallback" /\ lastCount = 1
    /\ Len(table) = 2 /\ model = "WindData"

(***************************************************************************)
(*       The yearly bundles: file_needs_zip, zip_forecast_data and         *)
(*       unzip_forecast_data, for one forecast type and one year.          *)
(*                                                                         *)
(* Every bundle is read and written from its own year directory only, so   *)
(* one year directory and its bundle are modelled.  Times are whole        *)
(* seconds; the conversion between a time stamp and local calendar time    *)
(* (time.localtime in zipfile, time.mktime in unzip_forecast_data) is      *)
(* taken to be one to one, which leaves out the repeated hour at the end   *)
(* of daylight saving time.                                                *)
(***************************************************************************)
MaxClock == 4
Contents == {1, 2}
BundleYear == 2024

IsJson(n) == n \in JsonNames

\* os.path.relpath(file_path, type_folder): the year folder, then the name.
Arcname(n) == <<BundleYear, n>>

\* A bundle member is stored with the MS-DOS time stamp of its file: two
\* seconds' resolution, rounded down (zipfile writes date_time[5] // 2).
DosTime(t) == t - (t % 2)

File(c, t) == [exists |-> TRUE, content |-> c, mtime |-> t]

NoMember == [exists |-> FALSE, content |-> 0, date_time |-> 0]

Member(f) == [exists |-> TRUE, content |-> f.content, date_time |-> DosTime(f.mtime)]

JsonFilesOf(dir) == [n \in JsonNames |-> dir[n]]

NewerThanOrEqual(fileMtime, zip_mtime) == fileMtime >= zip_mtime

NewerThan(fileMtime, zip_mtime) == fileMtime > zip_mtime

NeedsZipWhenMissing(zip, dirExists, dir) == ~zip.exists

file_needs_zip(zip, dirExists, dir) ==
    IF ~zip.exists
    THEN TRUE
    ELSE \E n \in Names :
            /\ dirExists /\ dir[n].exists /\ IsJson(n)
            /\ NewerThan(dir[n].mtime, zip.mtime)

\* The bundle zip_forecast_data writes from the year directory at time now.
WriteBundle(dir, now) ==
    [exists  |-> TRUE,
     mtime   |-> now,
     members |-> [a \in {Arcname(n) : n \in JsonNames} |->
                     IF dir[a[2]].exists THEN Member(dir[a[2]]) ELSE NoMember]]

ExtractionTime(date_time, now) == now

\* time.mktime(member.date_time + (0, 0, -1)), given to os.utime.
RestoredTime(date_time, now) == date_time

ExtractOverwriting(zip, dir, now) ==
    [n \in Names |->
        IF IsJson(n) /\ zip.members[Arcname(n)].exists
        THEN File(zip.members[Arcname(n)].content,
                  RestoredTime(zip.members[Arcname(n)].date_time, now))
        ELSE dir[n]]

ExtractNothing(zip, dir, now) == dir

\* The year directory after unzip_forecast_data has gone through the bundle.
Extract(zip, dir, now) ==
    [n \in Names |->
        IF /\ IsJson(n)
           /\ zip.members[Arcname(n)].exists
           /\ ~dir[n].exists
        THEN File(zip.members[Arcname(n)].content,
                  RestoredTime(zip.members[Arcname(n)].date_time, now))
        ELSE dir[n]]

\* Time passes.
Tick ==
    /\ clock < MaxClock
    /\ clock' = clock + 1
    /\ lastOp' = "tick"
    /\ UNCHANGED <<yearDirExists, yearDir, bundle, zipped>>

\* save_forecast_json as import_forecast calls it: the file of a day that
\* has none yet is written, in a year directory made on demand.
WriteJson ==
    \E n \in JsonNames, c \in Contents :
        /\ ~(yearDirExists /\ yearDir[n].exists)
        /\ yearDirExists' = TRUE
        /\ yearDir' = [yearDir EXCEPT ![n] = File(c, clock)]
        /\ lastOp' = "write"
        /\ UNCHANGED <<clock, bundle, zipped>>

\* Something outside the program writes a file of the year directory: a JSON
\* file is edited or touched, or the other file is put there.
ModifyFile ==
    \E n \in Names, c \in Contents :
        /\ yearDirExists
        /\ IsJson(n) => yearDir[n].exists
        /\ yearDir' = [yearDir EXCEPT ![n] =
                          File(IF IsJson(n) THEN c ELSE 1,
                               IF IsJson(n) THEN clock ELSE 0)]
        /\ lastOp' = "modify"
        /\ UNCHANGED <<clock, yearDirExists, bundle, zipped>>

\* Something outside the program removes a JSON file.
DeleteFile ==
    \E n \in JsonNames :
        /\ yearDirExists /\ yearDir[n].exists
        /\ yearDir' = [yearDir EXCEPT ![n] = Absent]
        /\ lastOp' = "delete"
        /\ UNCHANGED <<clock, yearDirExists, bundle, zipped>>

\* The year directory is removed with all it holds, as in a fresh checkout
\* that carries the bundles only.
RemoveYearDir ==
    /\ yearDirExists
    /\ yearDirExists' = FALSE
    /\ yearDir' = [n \in Names |-> Absent]
    /\ lastOp' = "rmdir"
    /\ UNCHANGED <<clock, bundle, zipped>>

ZipForecastData ==
    /\ IF yearDirExists /\ file_needs_zip(bundle, yearDirExists, yearDir)
       THEN /\ bundle' = WriteBundle(yearDir, clock)
            /\ zipped' = JsonFilesOf(yearDir)
            /\ lastOp' = "zip_written"
       ELSE /\ UNCHANGED <<bundle, zipped>>
            /\ lastOp' = "zip_skipped"
    /\ UNCHANGED <<clock, yearDirExists, yearDir>>

\* unzip_all_forecast_zips: unzip_forecast_data for the bundle that is there.
UnzipForecastData ==
    /\ bundle.exists
    /\ yearDir' = Extract(bundle, yearDir, clock)
    /\ yearDirExists' =
          (yearDirExists \/ \E n \in JsonNames : bundle.members[Arcname(n)].exists)
    /\ lastOp' = IF \A n \in Names : ~yearDir[n].exists
                 THEN "unzip_into_empty" ELSE "unzip"
    /\ UNCHANGED <<clock, bundle, zipped>>

InitArchive ==
    /\ clock \in 0..1
    /\ yearDirExists = FALSE
    /\ yearDir = [n \in Names |-> Absent]
    /\ bundle = NoBundle
    /\ zipped = [n \in JsonNames |-> Absent]
    /\ lastOp = "none"

ArchTick   == Tick /\ UNCHANGED <<latestVars, runVars, rangeVars, loadVars, convVars, storeVars, wrapVars, fcVars, zipVars, updVars>>
ArchWrite  == WriteJson /\ UNCHANGED <<latestVars, runVars, rangeVars, loadVars, convVars, storeVars, wrapVars, fcVars, zipVars, updVars>>
ArchModify == ModifyFile /\ UNCHANGED <<latestVars, runVars, rangeVars, loadVars, convVars, storeVars, wrapVars, fcVars, zipVars, updVars>>
ArchDelete == DeleteFile /\ UNCHANGED <<latestVars, runVars, rangeVars, loadVars, convVars, storeVars, wrapVars, fcVars, zipVars, updVars>>
ArchRmdir  == RemoveYearDir /\ UNCHANGED <<latestVars, runVars, rangeVars, loadVars, convVars, storeVars, wrapVars, fcVars, zipVars, updVars>>
ArchZip    == ZipForecastData /\ UNCHANGED <<latestVars, runVars, rangeVars, loadVars, convVars, storeVars, wrapVars, fcVars, zipVars, updVars>>
ArchUnzip  == UnzipForecastData /\ UNCHANGED <<latestVars, runVars, rangeVars, loadVars, convVars, storeVars, wrapVars, fcVars, zipVars, updVars>>

NextArchive ==
    \/ ArchTick \/ ArchWrite \/ ArchModify \/ ArchDelete \/ ArchRmdir
    \/ ArchZip \/ ArchUnzip

ArchiveInit == InitArchive /\ IdleStore /\ IdleWrapper /\ IdleForecast /\ IdleUpdate /\ IdleZip /\ IdleConvert /\ IdleLoader /\ IdleRange /\ IdleRuns /\ IdleLatest

SpecArchive == ArchiveInit /\ [][NextArchive]_vars

\* Some JSON file of the bundle has a modification time past the bundle's.
MemberBumpedPastBundle ==
    \E n \in JsonNames :
        /\ bundle.members[Arcname(n)].exists
        /\ yearDirExists /\ yearDir[n].exists
        /\ yearDir[n].mtime > bundle.mtime

C13_UnzipNeverOverwrites ==
    /\ [][(lastOp' \in {"unzip", "unzip_into_empty"})
             => \A n \in Names : yearDir[n].exists => yearDir'[n] = yearDir[n]]_vars
    /\ [](bundle.exists =>
             \A t \in clock..MaxClock :
                 Extract(bundle, Extract(bundle, yearDir, clock), t)
                     = Extract(bundle, yearDir, clock))

\* The bundle has been unzipped into a year directory that held the first
\* file, edited since the bundle was written, and not the second one: the
\* first file is as edited, the second one is the bundle's.
C13_Witness ==
    /\ lastOp = "unzip"
    /\ bundle.members[Arcname(1)].exists /\ bundle.members[Arcname(2)].exists
    /\ yearDir[1].exists /\ yearDir[2].exists
    /\ yearDir[1].content # bundle.members[Arcname(1)].content
    /\ yearDir[1].mtime > bundle.mtime
    /\ yearDir[2].content = bundle.members[Arcname(2)].content
    /\ yearDir[2].mtime = bundle.members[Arcname(2)].date_time

\* C14: file_needs_zip is true exactly when the bundle does not exist or
\* some JSON file of the year directory has a modification time strictly
\* later than the bundle's; a bundle as late as every JSON file, or later,
\* is up to date.
C14_NeedsZipIff ==
    file_needs_zip(bundle, yearDirExists, yearDir)
        <=> \/ ~bundle.exists
            \/ \E n \in JsonNames :
                  yearDirExists /\ yearDir[n].exists /\ yearDir[n].mtime > bundle.mtime

\* A bundle with the very modification time of one JSON file, later than the
\* other one's, is up to date; the file with that time was written after
\* the bundle.
C14_Witness ==
    /\ bundle.exists /\ yearDirExists
    /\ yearDir[1].exists /\ yearDir[2].exists
    /\ yearDir[1].mtime < bundle.mtime
    /\ yearDir[2].mtime = bundle.mtime
    /\ ~bundle.members[Arcname(2)].exists
    /\ ~file_needs_zip(bundle, yearDirExists, yearDir)

(***************************************************************************)
(*   The writing of a bundle, step by step: zipfile.ZipFile(zip_path, 'w') *)
(*   truncates the file at zip_path, zipf.write adds one member after the  *)
(*   other, and leaving the with block writes the central directory.  The  *)
(*   process can die at any point in between.                              *)
(***************************************************************************)

\* The file at zip_path right after ZipFile(zip_path, 'w') has opened it.
Truncated(now) ==
    [exists  |-> TRUE,
     mtime   |-> now,
     members |-> [a \in {Arcname(n) : n \in JsonNames} |-> NoMember]]

\* zip_forecast_data comes to the year directory: the bundle is up to date,
\* or the ZipFile is opened for writing.
ZipOpen ==
    /\ zpc \in {"idle", "crashed"}
    /\ yearDirExists
    /\ IF file_needs_zip(bundle, yearDirExists, yearDir)
       THEN /\ prevBundle' = bundle
            /\ bundle' = Truncated(clock)
            /\ toWrite' = {n \in JsonNames : yearDir[n].exists}
            /\ zpc' = "writing"
            /\ lastOp' = "zip_open"
       ELSE /\ UNCHANGED <<bundle, zipVars>>
            /\ lastOp' = "zip_skipped"
    /\ UNCHANGED <<clock, yearDirExists, yearDir, zipped>>

\* zipf.write(file_path, arcname) for one of the files os.walk yields.
ZipWriteMember ==
    /\ zpc = "writing"
    /\ \E n \in toWrite :
          /\ bundle' = [bundle EXCEPT !.members[Arcname(n)] = Member(yearDir[n]),
                                      !.mtime = clock]
          /\ toWrite' = toWrite \ {n}
    /\ lastOp' = "zip_member"
    /\ UNCHANGED <<clock, yearDirExists, yearDir, zipped, zpc, prevBundle>>

\* The with block is left: the ZipFile is closed and the bundle is complete.
ZipClose ==
    /\ zpc = "writing"
    /\ toWrite = {}
    /\ bundle' = [bundle EXCEPT !.mtime = clock]
    /\ zipped' = JsonFilesOf(yearDir)
    /\ zpc' = "idle"
    /\ lastOp' = "zip_written"
    /\ UNCHANGED <<clock, yearDirExists, yearDir, toWrite, prevBundle>>

\* The process dies while the ZipFile is open.
ZipCrash ==
    /\ zpc = "writing"
    /\ zpc' = "crashed"
    /\ lastOp' = "crash"
    /\ UNCHANGED <<clock, yearDirExists, yearDir, bundle, zipped, toWrite, prevBundle>>

\* The year directory as runs of import_forecast have left it, with or
\* without a bundle written from an earlier state of it.
InitCompaction ==
    /\ clock = 2
    /\ yearDirExists = TRUE
    /\ \E c1, c2 \in Contents, t \in 0..1 :
          yearDir = [n \in Names |->
                        IF n = 1 THEN File(c1, t)
                        ELSE IF n = 2 THEN File(c2, 2) ELSE Absent]
    /\ bundle \in {NoBundle,
                   WriteBundle([n \in Names |-> IF n = 1 THEN File(1, 0) ELSE Absent], 1)}
    /\ zipped = [n \in JsonNames |->
                    IF bundle.exists /\ n = 1 THEN File(1, 0) ELSE Absent]
    /\ lastOp = "none"
    /\ IdleZip /\ IdleConvert /\ IdleLoader /\ IdleRange /\ IdleRuns /\ IdleLatest

CompTick   == zpc # "crashed" /\ Tick /\ UNCHANGED <<latestVars, runVars, rangeVars, loadVars, convVars, storeVars, wrapVars, fcVars, zipVars, updVars>>
CompModify == zpc = "idle" /\ ModifyFile /\ UNCHANGED <<latestVars, runVars, rangeVars, loadVars, convVars, storeVars, wrapVars, fcVars, zipVars, updVars>>
CompOpen   == ZipOpen /\ UNCHANGED <<latestVars, runVars, rangeVars, loadVars, convVars, storeVars, wrapVars, fcVars, updVars>>
CompMember == ZipWriteMember /\ UNCHANGED <<latestVars, runVars, rangeVars, loadVars, convVars, storeVars, wrapVars, fcVars, updVars>>
CompClose  == ZipClose /\ UNCHANGED <<latestVars, runVars, rangeVars, loadVars, convVars, storeVars, wrapVars, fcVars, updVars>>
CompCrash  == ZipCrash /\ UNCHANGED <<latestVars, runVars, rangeVars, loadVars, convVars, storeVars, wrapVars, fcVars, updVars>>

NextCompaction ==
    \/ CompTick \/ CompModify \/ CompOpen \/ CompMember \/ CompClose \/ CompCrash

CompactionInit ==
    InitCompaction /\ IdleStore /\ IdleWrapper /\ IdleForecast /\ IdleUpdate

SpecCompaction == CompactionInit /\ [][NextCompaction]_vars

\* C12: while zip_forecast_data writes a bundle, and after a crash midway,
\* the file at the bundle's path is the complete bundle of before; once the
\* writing is done it is the complete new one.
C12_BundleNeverPartial ==
    /\ zpc \in {"writing", "crashed"} => bundle = prevBundle
    /\ lastOp = "zip_written" => bundle = WriteBundle(yearDir, clock)

(***************************************************************************)
(*      update_data, and import_belpex with its browser session.           *)
(*                                                                         *)
(* import_wind and import_solar are import_forecast, modelled above; here  *)
(* a call of them is one step that returns or raises.  The files of a      *)
(* month's price export are touched by import_belpex for that month only,  *)
(* so the files of the month at hand are the ones kept in the state.       *)
(***************************************************************************)
Todays == {[year |-> 2025, month |-> 1, day |-> 4],
           [year |-> 2025, month |-> 3, day |-> 4],
           [year |-> 2025, month |-> 3, day |-> 5]}

\* An argument that is not given is <<>>, one that is given is <<value>>.
FromYears == {<<>>, <<2025>>, <<2026>>}
ToYears   == {<<>>, <<2024>>, <<2026>>}
DataTypes == {"wind", "solar", "belpex", "all", "prices"}

\* The calls of update_data looked at: every kind over the months of the
\* current year, and one forecast kind over the long window that the
\* default of from_year gives.
Calls ==
    {c \in [today : Todays, from_year : FromYears, to_year : ToYears,
            data_type : DataTypes] :
        c.from_year = <<>> => c.data_type \in {"wind", "prices"}}

\* What an export file can hold: rows of the month, no rows at all, other
\* columns than Datum, Time and Euro, rows of other months only.
XlsxKinds == {"data", "empty", "no_columns", "other_month"}

\* The function with the fourth day counted as late enough.
LatestFromTheFourthDay(t) ==
    LET latest_available_month == IF t.day <= 3 THEN t.month - 2 ELSE t.month - 1
    IN  IF latest_available_month <= 0
        THEN [year |-> t.year - 1, month |-> latest_available_month + 12]
        ELSE [year |-> t.year, month |-> latest_available_month]

get_latest_available_year_month(t) ==
    LET latest_available_month == IF t.day <= 4 THEN t.month - 2 ELSE t.month - 1
    IN  IF latest_available_month <= 0
        THEN [year |-> t.year - 1, month |-> latest_available_month + 12]
        ELSE [year |-> t.year, month |-> latest_available_month]

\* from_year and to_year after the defaults.
FromYear == IF from_year = <<>> THEN today.year - 1 ELSE from_year[1]
ToYear   == IF to_year = <<>> THEN today.year ELSE to_year[1]

AnyTypeAllowed == DataTypes

\* allowed_types = {'wind', 'solar', 'belpex', 'all'}
allowed_types == {"wind", "solar", "belpex", "all"}

ForecastRequestedByAll == data_type = "all"

\* data_type in ('wind', 'solar', 'all')
ForecastRequested == data_type \in {"wind", "solar", "all"}

\* The keys of import_funcs, in their order.
import_funcs == <<"wind", "solar", "belpex">>

BeyondLatestOrAtIt(y, m) ==
    LET latest == get_latest_available_year_month(today)
    IN  (y = latest.year /\ m >= latest.month) \/ y > latest.year

\* The test that skips a month in the loop of update_data.
BeyondLatest(y, m) ==
    LET latest == get_latest_available_year_month(today)
    IN  (y = latest.year /\ m > latest.month) \/ y > latest.year

\* update_data is called: the defaults, the check of data_type.
UpdateDataCall ==
    /\ upc = "idle"
    /\ IF data_type \notin allowed_types
       THEN /\ upc' = "raised"
            /\ UNCHANGED <<year, month, counter>>
       ELSE /\ upc' = IF ForecastRequested THEN "unzip" ELSE "loop"
            /\ year' = FromYear
            /\ month' = 1
            /\ counter' = 0
    /\ UNCHANGED <<inputVars, dtype, invoked, reported, belVars,
                   wrapVars, archVars>>

\* unzip_all_forecast_zips()
UpdateUnzip ==
    /\ upc = "unzip"
    /\ upc' = "loop"
    /\ IF bundle.exists THEN UnzipForecastData ELSE UNCHANGED archVars
    /\ UNCHANGED <<inputVars, year, month, dtype, counter, invoked, reported,
                   belVars, wrapVars>>

\* On to the next month of the two loops.
NextMonth ==
    /\ month' = IF month = 12 THEN 1 ELSE month + 1
    /\ year' = IF month = 12 THEN year + 1 ELSE year

\* The head of the loops over years and months, with the test that skips
\* the months past the latest available one.
UpdateLoop ==
    /\ upc = "loop"
    /\ IF year > ToYear
       THEN upc' = "end" /\ UNCHANGED <<year, month, dtype>>
       ELSE IF BeyondLatest(year, month)
            THEN NextMonth /\ UNCHANGED <<upc, dtype>>
            ELSE upc' = "kinds" /\ dtype' = 1 /\ UNCHANGED <<year, month>>
    /\ UNCHANGED <<inputVars, counter, invoked, reported, belVars,
                   wrapVars, archVars>>

\* The loop over import_funcs: a kind that was not asked for is passed over,
\* and after the last kind the month is done.
UpdateKind ==
    /\ upc = "kinds"
    /\ IF dtype > Len(import_funcs)
       THEN NextMonth /\ upc' = "loop" /\ UNCHANGED dtype
       ELSE /\ data_type \notin {import_funcs[dtype], "all"}
            /\ dtype' = dtype + 1
            /\ UNCHANGED <<upc, year, month>>
    /\ UNCHANGED <<inputVars, counter, invoked, reported, belVars,
                   wrapVars, archVars>>

KindIsDue ==
    /\ upc = "kinds"
    /\ dtype <= Len(import_funcs)
    /\ data_type \in {import_funcs[dtype], "all"}

\* func(year, month) for import_wind or import_solar.
UpdateCallForecast ==
    /\ KindIsDue
    /\ import_funcs[dtype] \in {"wind", "solar"}
    /\ upc' = "forecast"
    /\ invoked' = Append(invoked, <<year, month, import_funcs[dtype]>>)
    /\ UNCHANGED <<inputVars, year, month, dtype, counter, reported,
                   belVars, wrapVars, archVars>>

\* func(year, month) for import_belpex: its wrapper is entered.  The export
\* files of the month are what earlier runs have left.
UpdateCallBelpex ==
    /\ KindIsDue
    /\ import_funcs[dtype] = "belpex"
    /\ upc' = "belpex"
    /\ invoked' = Append(invoked, <<year, month, import_funcs[dtype]>>)
    /\ WrapperEnter
    /\ csv' \in BOOLEAN
    /\ xlsx' \in {"absent", "data"}
    /\ opened' = 0
    /\ exportOutcome' = "none"
    /\ UNCHANGED <<inputVars, year, month, dtype, counter, reported,
                   bpc, pending, download, popup, sessions, archVars>>

OnFetchExceptionAbort == "raised"

\* except Exception as e: print(...), and the loop goes on.
OnFetchException == "kinds"

\* try: func(year, month); counter += 1, except Exception: ...
FetchEnded(how) ==
    /\ counter' = IF how = "returned" THEN counter + 1 ELSE counter
    /\ upc' = IF how = "returned" THEN "kinds" ELSE OnFetchException
    /\ dtype' = dtype + 1
    /\ UNCHANGED <<inputVars, year, month, invoked, reported>>

\* import_wind or import_solar ends.  The bundle modelled is the one of the
\* wind forecasts of BundleYear: a call for a month of that year may have
\* written a day's file.
ForecastEnds ==
    /\ upc = "forecast"
    /\ \E how \in {"returned", "raised"} : FetchEnded(how)
    /\ \/ UNCHANGED archVars
       \/ /\ import_funcs[dtype] = "wind" /\ year = BundleYear
          /\ WriteJson
    /\ UNCHANGED <<belVars, wrapVars>>

\* import_belpex has ended, by its wrapper.  The wrapper's locals are gone
\* with the call, and the loop goes on to other months and their files.
BelpexEnds ==
    /\ upc = "belpex"
    /\ wpc = "done"
    /\ FetchEnded(result)
    /\ wpc' = "idle" /\ _tries' = tries /\ _delay' = delay
    /\ events' = <<>> /\ result' = "none"
    /\ csv' = FALSE /\ xlsx' = "absent" /\ opened' = 0 /\ exportOutcome' = "none"
    /\ UNCHANGED <<tries, delay, backoff, bodyPc, bpc, pending, download, popup,
                   sessions, archVars>>

NoDataBelowTwo(c) == c < 2

\* if counter == 0
NoData(c) == c = 0

\* if counter == 0: print("Geen data beschikbaar.")
UpdateEnd ==
    /\ upc = "end"
    /\ reported' = NoData(counter)
    /\ upc' = IF ForecastRequested THEN "zip" ELSE "done"
    /\ UNCHANGED <<inputVars, year, month, dtype, counter, invoked,
                   belVars, wrapVars, archVars>>

\* zip_forecast_data()
UpdateZip ==
    /\ upc = "zip"
    /\ upc' = "done"
    /\ ZipForecastData
    /\ UNCHANGED <<inputVars, year, month, dtype, counter, invoked, reported,
                   belVars, wrapVars>>


\* ---- the body of import_belpex ----

\* What the steps of the body leave alone: update_data and the wrapper,
\* apart from bodyPc.
BodyFrame ==
    UNCHANGED <<inputVars, loopVars, archVars,
                tries, delay, backoff, _tries, _delay, wpc, events, result>>

XlsxRemovedFirst(csvExists, x) == "absent"

DownloadKept(d) == d

\* prepare_download_dir: if os.path.exists(file_path): os.remove(file_path)
DownloadAfterPrepare(d) == "absent"

\* if os.path.exists(new_file_csv_path): return, and only then
\* if os.path.exists(new_file_xlsx_path): os.remove(new_file_xlsx_path)
XlsxAfterStart(csvExists, x) == IF csvExists THEN x ELSE "absent"

\* prepare_download_dir, the skip of a month whose csv exists, and the
\* removal of the month's xlsx.
ImportBelpexStart ==
    /\ upc = "belpex"
    /\ bodyPc = "start"
    /\ download' = DownloadAfterPrepare(download)
    /\ pending' = FALSE
    /\ popup' = "none"
    /\ xlsx' = XlsxAfterStart(csv, xlsx)
    /\ IF csv
       THEN /\ bodyPc' = "returned"
            /\ bpc' = "none"
            /\ exportOutcome' = "bypass"
       ELSE /\ bodyPc' = "running"
            /\ bpc' = "setup"
            /\ exportOutcome' = IF download = "stale"
                                THEN "leftover_removed" ELSE "none"
    /\ UNCHANGED <<csv, sessions, opened>>
    /\ BodyFrame

\* driver = setup_chrome_driver(download_dir): a browser session is started,
\* or webdriver.Chrome raises.
SetupChromeDriver ==
    /\ bpc = "setup"
    /\ \/ /\ sessions' = sessions + 1
          /\ opened' = opened + 1
          /\ bpc' = "get"
          /\ UNCHANGED bodyPc
       \/ /\ bodyPc' = "raised"
          /\ bpc' = "none"
          /\ UNCHANGED <<sessions, opened>>
    /\ UNCHANGED <<pending, csv, xlsx, download, popup, exportOutcome>>
    /\ BodyFrame

\* driver.get(url): the page is there, with or without its popup, or the
\* call raises.
DriverGet ==
    /\ bpc = "get"
    /\ \/ /\ popup' \in {"none", "shown"}
          /\ bpc' = "popup"
          /\ UNCHANGED pending
       \/ /\ pending' = TRUE
          /\ bpc' = "quit"
          /\ UNCHANGED popup
    /\ UNCHANGED <<bodyPc, csv, xlsx, download, sessions, opened, exportOutcome>>
    /\ BodyFrame

\* The try block around the popup: wait is read before it is assigned, the
\* UnboundLocalError is caught by except Exception, nothing is clicked.
PopupAfterTry(p) == p

ClosePopup ==
    /\ bpc = "popup"
    /\ popup' = PopupAfterTry(popup)
    /\ bpc' = "export"
    /\ UNCHANGED <<bodyPc, pending, csv, xlsx, download, sessions, opened,
                   exportOutcome>>
    /\ BodyFrame

\* The wait for the export buttons, the click on the Excel one, the wait for
\* the download: the file has landed under the generic name or it has not
\* (the browser does not write over a file that has that name already), or
\* the wait for the buttons raises.
ExportClick ==
    /\ bpc = "export"
    /\ \/ /\ IF download = "absent"
             THEN download' \in XlsxKinds \cup {"absent"}
             ELSE UNCHANGED download
          /\ bpc' = "rename"
          /\ UNCHANGED pending
       \/ /\ pending' = TRUE
          /\ bpc' = "quit"
          /\ UNCHANGED download
    /\ UNCHANGED <<bodyPc, csv, xlsx, popup, sessions, opened, exportOutcome>>
    /\ BodyFrame

rename_belpex_file ==
    /\ bpc = "rename"
    /\ IF download # "absent"
       THEN /\ xlsx' = download
            /\ download' = "absent"
            /\ UNCHANGED exportOutcome
       ELSE /\ exportOutcome' = "download_missing"
            /\ UNCHANGED <<xlsx, download>>
    /\ bpc' = "convert"
    /\ UNCHANGED <<bodyPc, pending, csv, popup, sessions, opened>>
    /\ BodyFrame

\* convert_elexys_xlsx_to_csv: a file that cannot be read or has nothing to
\* convert makes it return; the csv is written from the rows of the month,
\* unless writing it raises.
convert_elexys_xlsx_to_csv ==
    /\ bpc = "convert"
    /\ bpc' = "quit"
    /\ IF xlsx = "absent"
       THEN UNCHANGED <<csv, pending, exportOutcome>>
       ELSE IF xlsx # "data"
            THEN exportOutcome' = "conversion_skipped" /\ UNCHANGED <<csv, pending>>
            ELSE \/ /\ csv' = TRUE
                    /\ exportOutcome' = "converted"
                    /\ UNCHANGED pending
                 \/ /\ pending' = TRUE
                    /\ UNCHANGED <<csv, exportOutcome>>
    /\ UNCHANGED <<bodyPc, xlsx, download, popup, sessions, opened>>
    /\ BodyFrame

SessionsAfterUnguardedQuit(n, raising) == IF raising THEN n ELSE n - 1

\* finally: driver.quit()
SessionsAfterQuit(n, raising) == n - 1

\* The finally block, and the end of the body.  A download that had not
\* landed when rename_belpex_file looked may have landed by now: it is a
\* leftover ("stale") for whatever runs next.
DriverQuit ==
    /\ bpc = "quit"
    /\ sessions' = SessionsAfterQuit(sessions, pending)
    /\ bodyPc' = IF pending THEN "raised" ELSE "returned"
    /\ bpc' = "none"
    /\ popup' = "none"
    /\ pending' = FALSE
    /\ IF exportOutcome = "download_missing"
       THEN download' \in {"absent", "stale"}
       ELSE UNCHANGED download
    /\ UNCHANGED <<csv, xlsx, opened, exportOutcome>>
    /\ BodyFrame

\* The steps of the wrapper around import_belpex.
BelpexWrapperFrame == UNCHANGED <<latestVars, runVars, rangeVars, loadVars, convVars, storeVars, fcVars, archVars, zipVars, updVars>>

\* @retry_on_failure(tries=DEFAULT_ATTEMPTS, delay=RETRY_DELAY, backoff=2)
InitBelpexWrapper ==
    /\ tries = DEFAULT_ATTEMPTS /\ delay = RETRY_DELAY /\ backoff = 2
    /\ _tries = tries /\ _delay = delay
    /\ wpc = "idle" /\ bodyPc = "idle" /\ events = <<>> /\ result = "none"

\* The bundle and the year directory update_data starts with: nothing at
\* all, or the bundle alone, as a fresh checkout has it.
BundleOnly ==
    /\ clock = 3 /\ yearDirExists = FALSE
    /\ yearDir = [n \in Names |-> Absent]
    /\ zipped = [n \in JsonNames |-> IF n = 1 THEN File(1, 1) ELSE Absent]
    /\ bundle = WriteBundle([n \in Names |-> IF n = 1 THEN File(1, 1) ELSE Absent], 2)
    /\ lastOp = "none"

InitUpdate ==
    /\ \E c \in Calls :
          /\ today = c.today
          /\ from_year = c.from_year /\ to_year = c.to_year
          /\ data_type = c.data_type
    /\ upc = "idle" /\ year = 0 /\ month = 0 /\ dtype = 0
    /\ counter = 0 /\ invoked = <<>> /\ reported = FALSE
    /\ bpc = "none" /\ pending = FALSE /\ csv = FALSE /\ xlsx = "absent"
    /\ download \in {"absent", "stale"} /\ popup = "none"
    /\ sessions = 0 /\ opened = 0 /\ exportOutcome = "none"

UpdCall         == UpdateDataCall /\ UNCHANGED <<latestVars, runVars, rangeVars, loadVars, convVars, storeVars, fcVars, zipVars>>
UpdUnzip        == UpdateUnzip /\ UNCHANGED <<latestVars, runVars, rangeVars, loadVars, convVars, storeVars, fcVars, zipVars>>
UpdLoop         == UpdateLoop /\ UNCHANGED <<latestVars, runVars, rangeVars, loadVars, convVars, storeVars, fcVars, zipVars>>
UpdKind         == UpdateKind /\ UNCHANGED <<latestVars, runVars, rangeVars, loadVars, convVars, storeVars, fcVars, zipVars>>
UpdCallForecast == UpdateCallForecast /\ UNCHANGED <<latestVars, runVars, rangeVars, loadVars, convVars, storeVars, fcVars, zipVars>>
UpdForecastEnds == ForecastEnds /\ UNCHANGED <<latestVars, runVars, rangeVars, loadVars, convVars, storeVars, fcVars, zipVars>>
UpdCallBelpex   == UpdateCallBelpex /\ UNCHANGED <<latestVars, runVars, rangeVars, loadVars, convVars, storeVars, fcVars, zipVars>>
UpdBelpexEnds   == BelpexEnds /\ UNCHANGED <<latestVars, runVars, rangeVars, loadVars, convVars, storeVars, fcVars, zipVars>>
UpdEnd          == UpdateEnd /\ UNCHANGED <<latestVars, runVars, rangeVars, loadVars, convVars, storeVars, fcVars, zipVars>>
UpdZip          == UpdateZip /\ UNCHANGED <<latestVars, runVars, rangeVars, loadVars, convVars, storeVars, fcVars, zipVars>>
BelStart        == ImportBelpexStart /\ UNCHANGED <<latestVars, runVars, rangeVars, loadVars, convVars, storeVars, fcVars, zipVars>>
BelSetup        == SetupChromeDriver /\ UNCHANGED <<latestVars, runVars, rangeVars, loadVars, convVars, storeVars, fcVars, zipVars>>
BelGet          == DriverGet /\ UNCHANGED <<latestVars, runVars, rangeVars, loadVars, convVars, storeVars, fcVars, zipVars>>
BelPopup        == ClosePopup /\ UNCHANGED <<latestVars, runVars, rangeVars, loadVars, convVars, storeVars, fcVars, zipVars>>
BelExport       == ExportClick /\ UNCHANGED <<latestVars, runVars, rangeVars, loadVars, convVars, storeVars, fcVars, zipVars>>
BelRename       == rename_belpex_file /\ UNCHANGED <<latestVars, runVars, rangeVars, loadVars, convVars, storeVars, fcVars, zipVars>>
BelConvert      == convert_elexys_xlsx_to_csv /\ UNCHANGED <<latestVars, runVars, rangeVars, loadVars, convVars, storeVars, fcVars, zipVars>>
BelQuit         == DriverQuit /\ UNCHANGED <<latestVars, runVars, rangeVars, loadVars, convVars, storeVars, fcVars, zipVars>>
BelInvoke       == upc = "belpex" /\ WrapperInvoke /\ BelpexWrapperFrame
BelReturn       == upc = "belpex" /\ WrapperReturn /\ BelpexWrapperFrame
BelExcept       == upc = "belpex" /\ WrapperExcept /\ BelpexWrapperFrame
BelSleep        == upc = "belpex" /\ WrapperSleep /\ BelpexWrapperFrame
BelPropagate    == upc = "belpex" /\ WrapperPropagate /\ BelpexWrapperFrame

NextUpdate ==
    \/ UpdCall \/ UpdUnzip \/ UpdLoop \/ UpdKind
    \/ UpdCallForecast \/ UpdForecastEnds
    \/ UpdCallBelpex \/ UpdBelpexEnds
    \/ UpdEnd \/ UpdZip
    \/ BelStart \/ BelSetup \/ BelGet \/ BelPopup \/ BelExport
    \/ BelRename \/ BelConvert \/ BelQuit
    \/ BelInvoke \/ BelReturn \/ BelExcept \/ BelSleep \/ BelPropagate

UpdateInit ==
    /\ InitUpdate /\ InitBelpexWrapper /\ IdleStore /\ IdleForecast /\ IdleZip /\ IdleConvert /\ IdleLoader /\ IdleRange /\ IdleRuns /\ IdleLatest
    /\ IdleArchive \/ BundleOnly

SpecUpdate == UpdateInit /\ [][NextUpdate]_vars


\* Some browser session is open only while the body of import_belpex is
\* inside its try block.
InsideTry ==
    /\ wpc \in {"try", "last"}
    /\ bodyPc = "running"
    /\ bpc \in {"get", "popup", "export", "rename", "convert", "quit"}

\* C8: at most one browser session is open at any time, and one is open
\* only inside the try block of import_belpex: none is open when the body
\* has returned or raised, between the attempts of the wrapper, or once the
\* call has ended.
C8_SessionTeardown ==
    /\ sessions \in {0, 1}
    /\ sessions = 1 => InsideTry

\* A call has ended in which every attempt started a session: the first two
\* raised, the last one skipped the conversion; no session is open.
C8_Witness ==
    /\ upc = "belpex" /\ wpc = "done"
    /\ opened = DEFAULT_ATTEMPTS
    /\ exportOutcome = "conversion_skipped"
    /\ sessions = 0

\* The place of a fetch call in the two loops, for the slots 1, 2, ... of
\* the years from FromYear on: 12 months a year, the kinds of import_funcs
\* a month.
Slot(i) ==
    <<FromYear + ((i - 1) \div (12 * Len(import_funcs))),
      (((i - 1) % (12 * Len(import_funcs))) \div Len(import_funcs)) + 1,
      import_funcs[((i - 1) % Len(import_funcs)) + 1]>>

InWindow(c) == ~BeyondLatest(c[1], c[2]) /\ data_type \in {c[3], "all"}

\* The fetch calls of the window, in the order of the loops.
ExpectedCalls ==
    IF ToYear < FromYear
    THEN <<>>
    ELSE SelectSeq([i \in 1..((ToYear - FromYear + 1) * 12 * Len(import_funcs))
                      |-> Slot(i)], InWindow)

\* C9: update_data raises for an invalid data_type only; a fetch call that
\* raises leaves the counter alone and the loop goes on to the next kind of
\* the same month; the calls made are at any time the first of the calls
\* of the window, and all of them once update_data has ended.
C9_FailureIsolation ==
    /\ [](upc = "raised" => data_type \notin allowed_types)
    /\ [](/\ Len(invoked) <= Len(ExpectedCalls)
          /\ invoked = SubSeq(ExpectedCalls, 1, Len(invoked)))
    /\ [](upc = "done" => invoked = ExpectedCalls)
    /\ [][(upc \in {"forecast", "belpex"} /\ upc' # upc /\ counter' = counter)
             => (upc' = "kinds" /\ dtype' = dtype + 1
                 /\ year' = year /\ month' = month)]_vars

\* update_data has ended after six fetch calls, of all three kinds, every
\* one of which raised.
C9_Witness ==
    /\ upc = "done"
    /\ data_type = "all"
    /\ Len(invoked) = 6
    /\ counter = 0

\* The attempt of import_belpex that ended the call found no download, or
\* an export file with nothing to convert.
ResourceAbsent == exportOutcome \in {"download_missing", "conversion_skipped"}

\* C10: when import_belpex ends with the download missing or the export
\* file unusable, it has not raised, and update_data does not increment
\* its counter for that month.
C10_AbsentCountedAsFailed ==
    [][(upc = "belpex" /\ wpc = "done" /\ upc' # "belpex" /\ ResourceAbsent)
          => (result = "returned" /\ counter' = counter)]_vars


\* update_data runs on whenever it can take a step: nothing in it waits for
\* anything but bounded sleeps and blocking calls.
SpecUpdateFair == SpecUpdate /\ WF_vars(NextUpdate)

\* Every member of the bundle has its file in the year directory.
BundleExpanded ==
    bundle.exists =>
        \A n \in JsonNames :
            bundle.members[Arcname(n)].exists => (yearDirExists /\ yearDir[n].exists)

KindRank(k) == IF k = "wind" THEN 1 ELSE IF k = "solar" THEN 2 ELSE 3

\* The fetch call a comes before the fetch call b: an earlier month, or the
\* same month and an earlier kind.
CallBefore(a, b) ==
    \/ a[1] < b[1]
    \/ a[1] = b[1] /\ a[2] < b[2]
    \/ a[1] = b[1] /\ a[2] = b[2] /\ KindRank(a[3]) < KindRank(b[3])

\* The month m of the year y is within the years asked for and not later
\* than the latest available month.
PeriodInWindow(y, m) ==
    LET cutoff == get_latest_available_year_month(today)
    IN  /\ FromYear <= y /\ y <= ToYear
        /\ m \in 1..12
        /\ y < cutoff.year \/ (y = cutoff.year /\ m <= cutoff.month)

\* C16: every fetch call is for a month of the window and a kind asked for;
\* the calls come in strictly ascending order of month and, within a month,
\* in the order wind, solar, price, so none is made twice; and when
\* update_data has ended every month of the window has had its call for
\* every kind asked for.
C16_FetchWindow ==
    /\ \A i \in 1..Len(invoked) :
          /\ PeriodInWindow(invoked[i][1], invoked[i][2])
          /\ data_type \in {invoked[i][3], "all"}
    /\ \A i, j \in 1..Len(invoked) : i < j => CallBefore(invoked[i], invoked[j])
    /\ upc = "done" =>
          \A y \in (today.year - 1)..(today.year + 1), m \in 1..12,
             k \in {"wind", "solar", "belpex"} :
                (PeriodInWindow(y, m) /\ data_type \in {k, "all"})
                    => \E i \in 1..Len(invoked) : invoked[i] = <<y, m, k>>

\* update_data has ended for all kinds and a window of two months, every
\* one of the six fetch calls having returned.
C16_Witness ==
    /\ upc = "done" /\ data_type = "all"
    /\ Len(invoked) = 6 /\ counter = 6
    /\ invoked[1] = <<2025, 1, "wind">> /\ invoked[6] = <<2025, 2, "belpex">>


\* import_belpex is running for a month whose csv was there when it was
\* called (a csv written by the call itself comes with the outcome
\* "converted").
CsvExistedAtCall ==
    upc = "belpex" /\ csv /\ exportOutcome # "converted"

\* C17: when the csv of the month exists at the call of import_belpex, no
\* step of the call starts a browser session or opens the page, and the
\* month's csv and xlsx stay as they are; the call ends after a single
\* invocation of the body.
C17_ExportBypass ==
    /\ [][(CsvExistedAtCall /\ upc' = "belpex")
             => /\ csv' = csv /\ xlsx' = xlsx
                /\ sessions' = 0 /\ opened' = 0
                /\ bpc' = "none" /\ popup' = "none"]_vars
    /\ []((CsvExistedAtCall /\ wpc = "done")
             => /\ exportOutcome = "bypass" /\ result = "returned"
                /\ events = <<CallEvent, EndEvent("returned")>>)

\* A call of import_belpex has ended for a month that had its csv, and an
\* xlsx left by an earlier run: both are still there, no session was started.
C17_Witness ==
    /\ upc = "belpex" /\ wpc = "done"
    /\ exportOutcome = "bypass"
    /\ csv /\ xlsx = "data"
    /\ opened = 0 /\ sessions = 0


\* C18: when the generic download file is absent after the download wait,
\* the attempt renames nothing, does not go on to the conversion step and
\* ends as a failure, and the month has no xlsx and no csv afterwards.
C18_DownloadMissingFails ==
    /\ [][(bpc = "rename" /\ download = "absent")
             => /\ xlsx' = xlsx /\ csv' = csv
                /\ bpc' # "convert"]_vars
    /\ [][(bpc = "quit" /\ exportOutcome = "download_missing")
             => /\ bodyPc' = "raised"
                /\ xlsx' = "absent" /\ ~csv']_vars


MaxSheetRows == 3

\* The arguments year and month.
Periods == {[year |-> 2025, month |-> 1], [year |-> 2025, month |-> 2]}

\* Datum and Time of a source row, as read: four quarters of January 2025
\* in three clock hours, one of February 2025, one of January 2024, and one
\* that "%d/%m/%Y %H:%M" does not parse.
SourceDates ==
    {[y |-> 2025, m |-> 1, d |-> 1, h |-> 0, mi |-> 0],
     [y |-> 2025, m |-> 1, d |-> 1, h |-> 0, mi |-> 45],
     [y |-> 2025, m |-> 1, d |-> 1, h |-> 23, mi |-> 0],
     [y |-> 2025, m |-> 1, d |-> 2, h |-> 0, mi |-> 15],
     [y |-> 2025, m |-> 2, d |-> 1, h |-> 0, mi |-> 0],
     [y |-> 2024, m |-> 1, d |-> 1, h |-> 0, mi |-> 0],
     [y |-> 2025, m |-> 13, d |-> 1, h |-> 0, mi |-> 0]}

\* The Euro cell after pd.to_numeric(errors="coerce"): <<>> is NaN, <<x>> a
\* number of euros.
SourceEuros == {<<>>, <<10>>, <<15>>}

SourceRows == [date : SourceDates, euro : SourceEuros]

Sheets == UNION {[1..n -> SourceRows] : n \in 0..MaxSheetRows}

\* pd.to_datetime(..., format="%d/%m/%Y %H:%M") accepts the row.
Parses(r) ==
    /\ r.date.m \in 1..12 /\ r.date.d \in 1..31
    /\ r.date.h \in 0..23 /\ r.date.mi \in 0..59

InMonthOfAnyYear(r, p) == r.date.m = p.month

\* (df["Date"].dt.year == year) & (df["Date"].dt.month == month)
InPeriod(r, p) == r.date.y = p.year /\ r.date.m = p.month

\* df.dropna(subset=["Euro"]) keeps the row.
Numeric(r) == r.euro # <<>>

\* df["Date"].dt.floor("h")
Hour(r) == [y |-> r.date.y, m |-> r.date.m, d |-> r.date.d, h |-> r.date.h]

HourBefore(a, b) ==
    \/ a.y < b.y
    \/ a.y = b.y /\ a.m < b.m
    \/ a.y = b.y /\ a.m = b.m /\ a.d < b.d
    \/ a.y = b.y /\ a.m = b.m /\ a.d = b.d /\ a.h < b.h

RECURSIVE SumEuro(_, _, _)
SumEuro(rows, idx, hour) ==
    IF idx = {} THEN 0
    ELSE LET i == CHOOSE j \in idx : TRUE
         IN  (IF Hour(rows[i]) = hour THEN rows[i].euro[1] ELSE 0)
                 + SumEuro(rows, idx \ {i}, hour)

\* f"€ € {x:.2f}".replace(".", ","): the mean in cents, rounded.
FormatEuro(sum, n) ==
    LET cents == (200 * sum + n) \div (2 * n)
    IN  <<"€ €", cents \div 100, cents % 100>>

\* strftime("%d/%m/%Y %H:%M:%S") of the floored hour.
FormatDate(hour) == <<hour.d, hour.m, hour.y, hour.h, 0, 0>>

\* groupby("Hour")["Euro"].mean().sort_values("Hour", ascending=False), and
\* the two columns formatted.
RECURSIVE HourlyRows(_, _, _)
HourlyRows(rows, idx, hours) ==
    IF hours = {} THEN <<>>
    ELSE LET latest == CHOOSE a \in hours :
                          \A b \in hours \ {a} : HourBefore(b, a)
             n == Cardinality({i \in idx : Hour(rows[i]) = latest})
         IN  <<[Date |-> FormatDate(latest),
                Euro |-> FormatEuro(SumEuro(rows, idx, latest), n)]>>
                 \o HourlyRows(rows, idx, hours \ {latest})

\* The rows left after the filter on year and month, and after dropna.
Filtered(rows, p) == {i \in 1..Len(rows) : InPeriod(rows[i], p)}

Kept(rows, p) == {i \in Filtered(rows, p) : Numeric(rows[i])}

\* convert_elexys_xlsx_to_csv, from the combination of Datum and Time on.
ConvertSheet ==
    /\ cpc = "called"
    /\ cpc' = "done"
    /\ IF sheet = <<>>
       THEN logged' = "no_rows" /\ UNCHANGED csvFile
       ELSE IF \E i \in 1..Len(sheet) : ~Parses(sheet[i])
       THEN logged' = "date_error" /\ UNCHANGED csvFile
       ELSE IF Filtered(sheet, period) = {} \/ Kept(sheet, period) = {}
       THEN logged' = "no_data" /\ UNCHANGED csvFile
       ELSE /\ csvFile' =
                   [exists |-> TRUE,
                    rows |-> HourlyRows(sheet, Kept(sheet, period),
                               {Hour(sheet[i]) : i \in Kept(sheet, period)})]
            /\ logged' = "converted"
    /\ UNCHANGED <<period, sheet>>

InitConvert ==
    /\ period \in Periods
    /\ sheet \in Sheets
    /\ csvFile = NoCsv /\ logged = "none" /\ cpc = "called"

ConvConvert ==
    /\ ConvertSheet
    /\ UNCHANGED <<storeVars, wrapVars, fcVars, archVars, zipVars, updVars,
                   loadVars, rangeVars, runVars, latestVars>>

NextConvert == ConvConvert

ConvertInit ==
    /\ InitConvert /\ IdleStore /\ IdleWrapper /\ IdleForecast /\ IdleArchive
    /\ IdleZip /\ IdleUpdate /\ IdleLoader /\ IdleRange /\ IdleRuns /\ IdleLatest

SpecConvert == ConvertInit /\ [][NextConvert]_vars

\* The clock hours among the source rows that fall in the period, whatever
\* their price cell holds, and among those with a number for the price.
PeriodHours ==
    {Hour(sheet[i]) : i \in {j \in 1..Len(sheet) :
                                Parses(sheet[j]) /\ InPeriod(sheet[j], period)}}

PricedPeriodHours ==
    {Hour(sheet[i]) : i \in {j \in 1..Len(sheet) :
        Parses(sheet[j]) /\ InPeriod(sheet[j], period) /\ Numeric(sheet[j])}}

\* The csv has exactly one row for each hour of H and no other row.
CsvCovers(H) ==
    /\ Len(csvFile.rows) = Cardinality(H)
    /\ {csvFile.rows[i].Date : i \in 1..Len(csvFile.rows)}
          = {FormatDate(a) : a \in H}
    /\ \A i \in 1..Len(csvFile.rows) :
          /\ csvFile.rows[i].Date[2] = period.month
          /\ csvFile.rows[i].Date[3] = period.year

IsLeap(y) == (y % 4 = 0 /\ y % 100 # 0) \/ y % 400 = 0

\* calendar.monthrange(year, month)[1]
DaysInMonth(y, m) ==
    IF m = 2 THEN (IF IsLeap(y) THEN 29 ELSE 28)
    ELSE IF m \in {4, 6, 9, 11} THEN 30 ELSE 31

RECURSIVE DaysBeforeMonth(_, _)
DaysBeforeMonth(y, m) ==
    IF m = 1 THEN 0 ELSE DaysBeforeMonth(y, m - 1) + DaysInMonth(y, m - 1)

\* date.toordinal(): 1 for 1 January of the year 1.
Ordinal(y, m, d) ==
    LET p == y - 1
    IN  p * 365 + (p \div 4) - (p \div 100) + (p \div 400)
            + DaysBeforeMonth(y, m) + d

\* date.isoweekday(): 1 for Monday .. 7 for Sunday.
isoweekday(y, m, d) ==
    IF Ordinal(y, m, d) % 7 = 0 THEN 7 ELSE Ordinal(y, m, d) % 7

(***************************************************************************)
(*                          get_belpex_date_range                          *)
(***************************************************************************)

\* The years and months get_belpex_date_range is called with: leap years,
\* century years that are and are not leap years, and the years around now.
RangeYears  == {1900, 2000, 2100} \cup (2019..2028)
RangeMonths == 1..12

\* strftime("%Y-%m-%d"): four digits, two digits, two digits.
Strftime(y, m, d) ==
    <<y \div 1000, (y \div 100) % 10, (y \div 10) % 10, y % 10, "-",
      m \div 10, m % 10, "-", d \div 10, d % 10>>

PrecedingMonthOfSameYear(y, m) ==
    IF m = 1 THEN [year |-> y, month |-> 12] ELSE [year |-> y, month |-> m - 1]

\* if month == 1: previous_month = 12; previous_year = year - 1
\* else: previous_month = month - 1; previous_year = year
PrecedingMonth(y, m) ==
    IF m = 1 THEN [year |-> y - 1, month |-> 12]
    ELSE [year |-> y, month |-> m - 1]

\* if month == 12: next_month = 1; next_year = year + 1
\* else: next_month = month + 1; next_year = year
FollowingMonth(y, m) ==
    IF m = 12 THEN [year |-> y + 1, month |-> 1]
    ELSE [year |-> y, month |-> m + 1]

RangeCall ==
    /\ rpc = "idle"
    /\ rpc' = "from"
    /\ UNCHANGED <<arg_year, arg_month, from_date, until_date>>

\* _, days_previous_month = calendar.monthrange(previous_year, previous_month)
\* from_date = datetime(previous_year, previous_month,
\*                      days_previous_month).strftime("%Y-%m-%d")
RangeFromDate ==
    /\ rpc = "from"
    /\ LET p == PrecedingMonth(arg_year, arg_month)
       IN  from_date' = Strftime(p.year, p.month, DaysInMonth(p.year, p.month))
    /\ rpc' = "until"
    /\ UNCHANGED <<arg_year, arg_month, until_date>>

\* until_date = datetime(next_year, next_month, 1).strftime("%Y-%m-%d")
\* return from_date, until_date
RangeUntilDate ==
    /\ rpc = "until"
    /\ LET n == FollowingMonth(arg_year, arg_month)
       IN  until_date' = Strftime(n.year, n.month, 1)
    /\ rpc' = "returned"
    /\ UNCHANGED <<arg_year, arg_month, from_date>>

InitRange ==
    /\ arg_year \in RangeYears /\ arg_month \in RangeMonths
    /\ rpc = "idle" /\ from_date = <<>> /\ until_date = <<>>

RangeFrame ==
    UNCHANGED <<storeVars, wrapVars, fcVars, archVars, zipVars, updVars,
                convVars, loadVars, runVars, latestVars>>

RgCall  == RangeCall /\ RangeFrame
RgFrom  == RangeFromDate /\ RangeFrame
RgUntil == RangeUntilDate /\ RangeFrame

NextRange == RgCall \/ RgFrom \/ RgUntil

RangeInit ==
    /\ InitRange
    /\ IdleStore /\ IdleWrapper /\ IdleForecast /\ IdleArchive /\ IdleZip
    /\ IdleUpdate /\ IdleConvert /\ IdleLoader /\ IdleRuns /\ IdleLatest

SpecRange == RangeInit /\ [][NextRange]_vars

\* The date a text of the form yyyy-mm-dd names.
DateOf(text) ==
    [y |-> text[1] * 1000 + text[2] * 100 + text[3] * 10 + text[4],
     m |-> text[6] * 10 + text[7],
     d |-> text[9] * 10 + text[10]]

IsDate(dt) ==
    /\ dt.y >= 1 /\ dt.m \in 1..12
    /\ dt.d \in 1..DaysInMonth(dt.y, dt.m)

\* The years of RangeYears that have a 29 February.
LeapRangeYears == {2000, 2020, 2024, 2028}

\* C30: get_belpex_date_range(year, month) returns as from_date the day
\* before the first day of the month, that is the last day of the previous
\* month (31 December of year - 1 for January; 29 February for March of a
\* leap year and 28 February for March of any other year), and as until_date
\* the day after the last day of the month, that is the first day of the next
\* month (1 January of year + 1 for December).
C30_BelpexDateRange ==
    rpc = "returned" =>
        LET f == DateOf(from_date)
            u == DateOf(until_date)
        IN  /\ IsDate(f) /\ IsDate(u)
            /\ Ordinal(f.y, f.m, f.d) = Ordinal(arg_year, arg_month, 1) - 1
            /\ Ordinal(u.y, u.m, u.d)
                 = Ordinal(arg_year, arg_month,
                           DaysInMonth(arg_year, arg_month)) + 1
            /\ u.d = 1
            /\ arg_month = 1
                 => from_date = Strftime(arg_year - 1, 12, 31)
            /\ arg_month = 12
                 => until_date = Strftime(arg_year + 1, 1, 1)
            /\ arg_month \in 2..12
                 => f.y = arg_year /\ f.m = arg_month - 1
            /\ arg_month \in 1..11
                 => u.y = arg_year /\ u.m = arg_month + 1
            /\ arg_month = 3
                 => f.d = IF arg_year \in LeapRangeYears THEN 29 ELSE 28
            /\ arg_month \in {2, 4, 6, 8, 9, 11} => f.d = 31
            /\ arg_month \in {5, 7, 10, 12} => f.d = 30

\* get_belpex_date_range(2024, 3) has returned ("2024-02-29", "2024-04-01"),
\* the leap-year case.
C30_Witness ==
    /\ rpc = "returned" /\ arg_year = 2024 /\ arg_month = 3
    /\ from_date = <<2, 0, 2, 4, "-", 0, 2, "-", 2, 9>>
    /\ until_date = <<2, 0, 2, 4, "-", 0, 4, "-", 0, 1>>

(***************************************************************************)
(*                     parse_record and process_directory                  *)
(***************************************************************************)

\* The text of a datetime field: date and time of day, and what follows them
\* ("junk": a text that is no ISO-8601 form at all).
Text(y, m, d, h, mi, tz) ==
    [type |-> "str", y |-> y, m |-> m, d |-> d, h |-> h, mi |-> mi, tz |-> tz]

\* A datetime field that holds a number, and one that holds null.
NotText(t) ==
    [type |-> t, y |-> 0, m |-> 0, d |-> 0, h |-> 0, mi |-> 0, tz |-> ""]

ReplaceNothing(text) == text

\* record["datetime"].replace("Z", "+00:00")
ReplaceZ(text) == [text EXCEPT !.tz = IF @ = "Z" THEN "+00:00" ELSE @]

\* datetime.fromisoformat: <<>> for a ValueError, else the datetime.
fromisoformat(text) ==
    IF /\ text.m \in 1..12
       /\ text.d \in 1..DaysInMonth(text.y, IF text.m \in 1..12 THEN text.m ELSE 1)
       /\ text.h \in 0..23 /\ text.mi \in 0..59
       /\ text.tz \in {"", "+00:00", "+01:00"}
    THEN <<[year |-> text.y, month |-> text.m, day |-> text.d,
            hour |-> text.h, minute |-> text.mi, tzinfo |-> text.tz]>>
    ELSE <<>>

CalendarKeys == {"day", "month", "year", "hour", "minute", "weekday"}

\* The record with datetime replaced by dt and the calendar fields set.
Enriched(record, dt) ==
    [k \in DOMAIN record \cup CalendarKeys |->
        IF k = "datetime" THEN dt
        ELSE IF k = "day" THEN dt.day
        ELSE IF k = "month" THEN dt.month
        ELSE IF k = "year" THEN dt.year
        ELSE IF k = "hour" THEN dt.hour
        ELSE IF k = "minute" THEN dt.minute
        ELSE IF k = "weekday" THEN isoweekday(dt.year, dt.month, dt.day)
        ELSE record[k]]

\* parse_record(record): what it returns (<<>> for None) and the record as it
\* is afterwards (the dictionary is changed in place).
parse_record(record) ==
    IF "datetime" \notin DOMAIN record
    THEN [returned |-> <<>>, record |-> record]
    ELSE IF record.datetime.type # "str"
    THEN [returned |-> <<>>, record |-> record]
    ELSE LET dt == fromisoformat(ReplaceZ(record.datetime))
         IN  IF dt = <<>>
             THEN [returned |-> <<>>, record |-> record]
             ELSE [returned |-> <<Enriched(record, dt[1])>>,
                   record |-> Enriched(record, dt[1])]

MaxFileRecords == 2

\* The fields of a record besides datetime.
Rest(region) ==
    [region |-> region, offshoreonshore |-> "Offshore",
     gridconnectiontype |-> "Elia", measured |-> 10, malformed |-> FALSE]

WithDatetime(rest, dtField) ==
    [k \in DOMAIN rest \cup {"datetime"} |->
        IF k = "datetime" THEN dtField ELSE rest[k]]

\* The records of the files of a whole tree: one instant with and without a
\* region, and a text that does not parse.
TreeRecords ==
    {WithDatetime(Rest("Federal"), Text(2024, 2, 29, 0, 0, "Z")),
     WithDatetime(Rest(NULL), Text(2024, 2, 29, 0, 0, "+00:00")),
     WithDatetime(Rest("Federal"), Text(2024, 2, 29, 0, 0, "junk"))}

\* The records of a single file that is looked at for parse_record.
DatetimeFields ==
    {Text(y, 2, d, h, 0, tz) : y \in {2023, 2024}, d \in {1, 29}, h \in {0, 24},
                               tz \in {"Z", "+00:00", "", "junk"}}
    \cup {Text(2024, 13, 1, 0, 0, "Z"), NotText("int"), NotText("null")}

FileRecords ==
    {WithDatetime(Rest("Federal"), f) : f \in DatetimeFields}
        \cup {Rest("Federal")}

Unreadable == [readable |-> FALSE, records |-> <<>>]

Files(R) ==
    {[readable |-> TRUE, records |-> rs] :
        rs \in UNION {[1..n -> R] : n \in 0..MaxFileRecords}}

\* year_dir.isdigit()
IsDigit(name) == name \in {"2024", "2025"}

\* sorted(os.listdir(path)) with the JSON files of each entry: two files in
\* one year, or one in each of two years, or the second in an entry that is
\* no year.
Trees ==
    {<<[name |-> "2024", files |-> <<f1, f2>>]>> :
        f1 \in Files(TreeRecords) \cup {Unreadable}, f2 \in Files(TreeRecords)}
    \cup
    {<<[name |-> "2024", files |-> <<f1>>], [name |-> n, files |-> <<f2>>]>> :
        f1 \in Files(TreeRecords), f2 \in Files(TreeRecords),
        n \in {"2025", "tmp"}}

ParseTrees ==
    {<<[name |-> "2024", files |-> <<f>>]>> : f \in Files(FileRecords)}

BatchSizes == {1, 2}

BatchOverfull(n, size) == n > size

\* if len(batch) >= batch_size
BatchFull(n, size) == n >= size

CurrentFile == tree[yi].files[fi]

CurrentRecord == CurrentFile.records[ri]

\* for year_dir in sorted(os.listdir(path)): the counters, the test of the
\* entry, all_files and batch = [].
LoadYear ==
    /\ lpc = "year"
    /\ IF yi > Len(tree)
       THEN /\ lpc' = "done"
            /\ UNCHANGED <<yi, fi, year_batch, inserted_records, total_records>>
       ELSE IF ~IsDigit(tree[yi].name)
       THEN /\ yi' = yi + 1
            /\ inserted_records' = 0 /\ total_records' = 0
            /\ UNCHANGED <<lpc, fi, year_batch>>
       ELSE /\ inserted_records' = 0 /\ total_records' = 0
            /\ year_batch' = <<>>
            /\ fi' = 1
            /\ lpc' = "file"
            /\ UNCHANGED yi
    /\ UNCHANGED <<batch_size, tree, ret, ri, pendingCount, stored, flushed,
                   reports, table>>

\* for filepath in all_files: json.load, or continue when it raises.
LoadFile ==
    /\ lpc = "file"
    /\ IF fi > Len(tree[yi].files)
       THEN lpc' = "year_end" /\ UNCHANGED <<fi, ri>>
       ELSE IF ~CurrentFile.readable
       THEN fi' = fi + 1 /\ UNCHANGED <<lpc, ri>>
       ELSE ri' = 1 /\ lpc' = "record" /\ UNCHANGED fi
    /\ UNCHANGED <<batch_size, tree, ret, yi, year_batch, pendingCount,
                   inserted_records, total_records, stored, flushed, reports,
                   table>>

\* for record in records: parse_record, batch.append, and the test of
\* len(batch) against batch_size.
LoadRecord ==
    /\ lpc = "record"
    /\ IF ri > Len(CurrentFile.records)
       THEN /\ fi' = fi + 1
            /\ lpc' = "file"
            /\ UNCHANGED <<ri, tree, year_batch, total_records, ret>>
       ELSE LET parsed == parse_record(CurrentRecord) IN
            /\ total_records' = total_records + 1
            /\ tree' = [tree EXCEPT ![yi].files[fi].records[ri] = parsed.record]
            /\ ri' = ri + 1
            /\ UNCHANGED fi
            /\ IF parsed.returned = <<>>
               THEN UNCHANGED <<year_batch, lpc, ret>>
               ELSE /\ year_batch' = Append(year_batch, parsed.returned[1])
                    /\ IF BatchFull(Len(year_batch'), batch_size)
                       THEN lpc' = "insert" /\ ret' = "record"
                       ELSE UNCHANGED <<lpc, ret>>
    /\ UNCHANGED <<batch_size, yi, pendingCount, inserted_records, stored,
                   flushed, reports, table>>

\* if batch: inserted_records += insert_batch(batch, model)
LoadYearEnd ==
    /\ lpc = "year_end"
    /\ IF year_batch # <<>>
       THEN lpc' = "insert" /\ ret' = "report"
       ELSE lpc' = "report" /\ UNCHANGED ret
    /\ UNCHANGED <<batch_size, tree, yi, fi, ri, year_batch, pendingCount,
                   inserted_records, total_records, stored, flushed, reports,
                   table>>

\* insert_batch up to its session.commit(): the statements have run in the
\* open transaction.
LoadInsertExecute ==
    /\ lpc = "insert"
    /\ \E envFails \in BOOLEAN :
          LET r == insert_batch(model, table, year_batch, envFails) IN
          /\ table' = r.table
          /\ pendingCount' = r.count
    /\ lpc' = "commit"
    /\ UNCHANGED <<batch_size, tree, ret, yi, fi, ri, year_batch,
                   inserted_records, total_records, stored, flushed, reports>>

\* session.commit() and the return of insert_batch; batch.clear() when the
\* call was the one inside the loop over the records.
LoadInsertCommit ==
    /\ lpc = "commit"
    /\ stored' = table
    /\ inserted_records' = inserted_records + pendingCount
    /\ flushed' = Append(flushed, [year |-> tree[yi].name, rows |-> year_batch])
    /\ year_batch' = IF ret = "record" THEN <<>> ELSE year_batch
    /\ lpc' = ret
    /\ pendingCount' = 0
    /\ ret' = "none"
    /\ UNCHANGED <<batch_size, tree, yi, fi, ri, total_records, reports, table>>

\* The line printed for the year.
LoadReport ==
    /\ lpc = "report"
    /\ reports' = Append(reports, [year |-> tree[yi].name,
                                   inserted |-> inserted_records,
                                   total |-> total_records])
    /\ yi' = yi + 1
    /\ lpc' = "year"
    /\ UNCHANGED <<batch_size, tree, ret, fi, ri, year_batch, pendingCount,
                   inserted_records, total_records, stored, flushed, table>>

\* The run stops: the open transaction is rolled back.
LoadStop ==
    /\ lpc \notin {"idle", "done", "stopped"}
    /\ table' = stored
    /\ lpc' = "stopped"
    /\ UNCHANGED <<batch_size, tree, ret, yi, fi, ri, year_batch, pendingCount,
                   inserted_records, total_records, stored, flushed, reports>>

LoaderStart ==
    /\ batch_size \in BatchSizes
    /\ lpc = "year" /\ ret = "none"
    /\ yi = 1 /\ fi = 0 /\ ri = 0 /\ year_batch = <<>> /\ pendingCount = 0
    /\ inserted_records = 0 /\ total_records = 0
    /\ stored = <<>> /\ flushed = <<>> /\ reports = <<>>
    /\ model = "WindData" /\ table = <<>>
    /\ lastCount = 0 /\ lastPath = "none" /\ lastDup = FALSE

LoaderFrame ==
    UNCHANGED <<model, lastCount, lastPath, lastDup, wrapVars, fcVars, archVars,
                zipVars, updVars, convVars, rangeVars, runVars, latestVars>>

LdYear    == LoadYear /\ LoaderFrame
LdFile    == LoadFile /\ LoaderFrame
LdRecord  == LoadRecord /\ LoaderFrame
LdYearEnd == LoadYearEnd /\ LoaderFrame
LdExecute == LoadInsertExecute /\ LoaderFrame
LdCommit  == LoadInsertCommit /\ LoaderFrame
LdReport  == LoadReport /\ LoaderFrame
LdStop    == LoadStop /\ LoaderFrame

NextLoader ==
    \/ LdYear \/ LdFile \/ LdRecord \/ LdYearEnd
    \/ LdExecute \/ LdCommit \/ LdReport \/ LdStop

LoaderInit ==
    /\ tree \in Trees /\ LoaderStart
    /\ IdleWrapper /\ IdleForecast /\ IdleArchive /\ IdleZip /\ IdleUpdate
    /\ IdleConvert /\ IdleRange /\ IdleRuns /\ IdleLatest

ParseInit ==
    /\ tree \in ParseTrees /\ LoaderStart
    /\ IdleWrapper /\ IdleForecast /\ IdleArchive /\ IdleZip /\ IdleUpdate
    /\ IdleConvert /\ IdleRange /\ IdleRuns /\ IdleLatest

SpecLoader == LoaderInit /\ [][NextLoader]_vars

SpecParse == ParseInit /\ [][NextLoader]_vars


\* The table after the batches were inserted one after the other.
RECURSIVE ApplyBatches(_, _)
ApplyBatches(tbl, batches) ==
    IF batches = <<>> THEN tbl
    ELSE ApplyBatches(insert_batch(model, tbl, Head(batches).rows, FALSE).table,
                      Tail(batches))

\* The committed rows are those of the batches whose insert_batch call has
\* returned, no more and no less, also after the run has stopped.
CommittedIsCompletedBatches ==
    /\ stored = ApplyBatches(<<>>, flushed)
    /\ lpc = "stopped" => table = stored

\* No two committed rows have the same natural key.
UniquenessIntact ==
    \A i, j \in 1..Len(stored) :
        i < j => ~SameNaturalKey(model, stored[i], stored[j])

\* C22: whenever the run stops, the store holds exactly the rows of the
\* batches whose insert_batch call has returned (each call commits before it
\* returns, no batch is applied in part, what is committed stays), and no two
\* stored rows have the same natural key.
C22_CommitPerBatch ==
    /\ [](CommittedIsCompletedBatches /\ UniquenessIntact)
    /\ [][/\ Len(stored) <= Len(stored')
          /\ \A i \in 1..Len(stored) : stored'[i] = stored[i]]_vars

\* The part of C22 that does not depend on the natural keys.
C22_CommittedPrefixOnly ==
    /\ []CommittedIsCompletedBatches
    /\ [][/\ Len(stored) <= Len(stored')
          /\ \A i \in 1..Len(stored) : stored'[i] = stored[i]]_vars


RECURSIVE Concat(_)
Concat(seqs) == IF seqs = <<>> THEN <<>> ELSE Head(seqs) \o Concat(Tail(seqs))

\* A record of the tree that parse_record has enriched (it changes the
\* record in place).
WasParsed(rec) == "weekday" \in DOMAIN rec

\* The successfully parsed records of entry k of the tree, in the order of
\* its files, and the number of records its readable files hold.
ParsedOfYear(k) ==
    Concat([f \in 1..Len(tree[k].files) |->
               SelectSeq(tree[k].files[f].records, WasParsed)])

RecordsOfYear(k) ==
    Len(Concat([f \in 1..Len(tree[k].files) |-> tree[k].files[f].records]))

\* The batches handed to insert_batch for entry k, and for the entries
\* before k.
BatchesOfYear(k) ==
    SelectSeq(flushed, LAMBDA b : b.year = tree[k].name)

BatchesBefore(k) ==
    SelectSeq(flushed, LAMBDA b : \E j \in 1..(k - 1) : b.year = tree[j].name)

RowsOf(batches) == Concat([i \in 1..Len(batches) |-> batches[i].rows])

\* The place of a name in sorted(os.listdir(path)).
EntryOf(name) == CHOOSE k \in 1..Len(tree) : tree[k].name = name

YearEntries == {k \in 1..Len(tree) : IsDigit(tree[k].name)}

\* C23: the year directories are visited in sorted order; every batch handed
\* to insert_batch has at most batch_size rows, all batches of a year but its
\* last have exactly batch_size, and fewer than batch_size rows wait between
\* two records; at the end the batches of each year are, in order, exactly
\* the successfully parsed records of that year, each once, and the line of
\* each year counts the records and the inserted rows of that year only.
C23_Batching ==
    /\ \A i \in 1..Len(flushed) :
          /\ Len(flushed[i].rows) \in 1..batch_size
          /\ (i < Len(flushed) /\ flushed[i + 1].year = flushed[i].year)
                => Len(flushed[i].rows) = batch_size
          /\ i < Len(flushed)
                => EntryOf(flushed[i].year) <= EntryOf(flushed[i + 1].year)
    /\ lpc \in {"file", "record", "year_end"} => Len(year_batch) < batch_size
    /\ lpc = "done" =>
          /\ \A k \in YearEntries : RowsOf(BatchesOfYear(k)) = ParsedOfYear(k)
          /\ \A i \in 1..Len(flushed) :
                \E k \in YearEntries : flushed[i].year = tree[k].name
          /\ Len(reports) = Cardinality(YearEntries)
          /\ \A k \in YearEntries :
                \E r \in 1..Len(reports) :
                    /\ reports[r].year = tree[k].name
                    /\ reports[r].total = RecordsOfYear(k)
                    /\ reports[r].inserted =
                          Len(ApplyBatches(<<>>, BatchesBefore(k + 1)))
                              - Len(ApplyBatches(<<>>, BatchesBefore(k)))

\* With batch_size 2, the single record of 2024 was flushed at the end of
\* that year and not carried into 2025, whose two records made a full batch.
C23_Witness ==
    /\ lpc = "done" /\ batch_size = 2
    /\ Len(tree) = 2 /\ tree[2].name = "2025"
    /\ Len(flushed) = 2
    /\ flushed[1].year = "2024" /\ Len(flushed[1].rows) = 1
    /\ flushed[2].year = "2025" /\ Len(flushed[2].rows) = 2
    /\ reports = <<[year |-> "2024", inserted |-> 1, total |-> 2],
                   [year |-> "2025", inserted |-> 1, total |-> 2]>>


\* The datetime field of the record is a text in an ISO-8601 form: a date of
\* the calendar, a time of day, and nothing, Z or an offset after them.
IsIso8601(rec) ==
    /\ "datetime" \in DOMAIN rec
    /\ rec.datetime.type = "str"
    /\ rec.datetime.m \in 1..12
    /\ rec.datetime.d >= 1
    /\ rec.datetime.m \in 1..12 => rec.datetime.d <= DaysInMonth(rec.datetime.y, rec.datetime.m)
    /\ rec.datetime.h \in 0..23 /\ rec.datetime.mi \in 0..59
    /\ rec.datetime.tz \in {"", "Z", "+00:00", "+01:00"}

\* C29: parse_record returns None, without raising and without changing the
\* record, when the datetime field is missing, no text or no ISO-8601 text (a
\* trailing Z counts as UTC); the loader then goes on with the next record of
\* the file.  Otherwise the record comes back with datetime parsed and with
\* year, month, day, weekday, hour and minute of that instant, and is added
\* to the batch.
C29_ParseFailsSoftly ==
    [][(lpc = "record" /\ ri <= Len(CurrentFile.records)) =>
          LET rec == CurrentRecord
              now == tree'[yi].files[fi].records[ri]
          IN  /\ lpc' \in {"record", "insert", "stopped"}
              /\ lpc' # "stopped" =>
                    /\ ri' = ri + 1 /\ fi' = fi /\ yi' = yi
                    /\ total_records' = total_records + 1
                    /\ IF IsIso8601(rec)
                       THEN /\ year_batch' = Append(year_batch, now)
                            /\ DOMAIN now = DOMAIN rec \cup CalendarKeys
                            /\ \A k \in DOMAIN rec \ ({"datetime"} \cup CalendarKeys) :
                                  now[k] = rec[k]
                            /\ now.year = rec.datetime.y
                            /\ now.month = rec.datetime.m
                            /\ now.day = rec.datetime.d
                            /\ now.hour = rec.datetime.h
                            /\ now.minute = rec.datetime.mi
                            /\ now.weekday = isoweekday(now.year, now.month, now.day)
                            /\ now.weekday \in 1..7
                            /\ now.datetime.tzinfo =
                                  (IF rec.datetime.tz = "Z" THEN "+00:00"
                                   ELSE rec.datetime.tz)
                       ELSE /\ now = rec
                            /\ year_batch' = year_batch
                            /\ lpc' = "record"]_vars

\* A file of two records has been read: the first, whose text names a day
\* that is not in the calendar, was dropped and left as it was; the second,
\* with a trailing Z, is in the batch with the fields of Thursday 29 February
\* 2024.
C29_Witness ==
    /\ lpc = "record" /\ ri = 3 /\ batch_size = 2
    /\ tree[1].files[1].records[1]
          = WithDatetime(Rest("Federal"), Text(2023, 2, 29, 0, 0, "Z"))
    /\ Len(year_batch) = 1
    /\ year_batch[1] = tree[1].files[1].records[2]
    /\ year_batch[1].datetime
          = [year |-> 2024, month |-> 2, day |-> 29, hour |-> 0, minute |-> 0,
             tzinfo |-> "+00:00"]
    /\ year_batch[1].weekday = 4 /\ year_batch[1].year = 2024
    /\ year_batch[1].month = 2 /\ year_batch[1].day = 29
    /\ year_batch[1].hour = 0 /\ year_batch[1].minute = 0
    /\ total_records = 2


\* C27: the counter of update_data goes up by one exactly when a fetch
\* function returns without raising, and "Geen data beschikbaar" is printed,
\* after the loop over the periods, exactly when the counter is zero then;
\* a window without any period is such a case.
C27_NoDataReport ==
    /\ [][counter' # counter =>
             \/ upc \in {"forecast", "belpex"} /\ counter' = counter + 1
             \/ upc = "idle" /\ counter' = 0]_vars
    /\ [][(upc = "belpex" /\ upc' # "belpex")
             => (counter' = counter + 1 <=> result = "returned")]_vars
    /\ [](reported => upc \in {"zip", "done"})
    /\ [](upc \in {"zip", "done"} => (reported <=> counter = 0))
    /\ []((upc \in {"zip", "done"} /\ ExpectedCalls = <<>>) => reported)

\* update_data has ended for a window that lies after the latest available
\* month: no fetch was called and "Geen data beschikbaar" was printed.
C27_Witness ==
    /\ upc = "done" /\ data_type = "belpex"
    /\ from_year = <<2026>> /\ to_year = <<2026>>
    /\ invoked = <<>> /\ counter = 0 /\ reported


\* C28: update_data called with a kind other than wind, solar, belpex and all
\* raises ValueError as its first step and stays raised: no archive is
\* expanded or compacted, no fetch function is called, no file is written,
\* no browser session is opened, nothing is counted or reported, and the call
\* is not made again.
C28_InvalidKindRaisesAtOnce ==
    /\ [](data_type \notin {"wind", "solar", "belpex", "all"}
             => upc \in {"idle", "raised"})
    /\ [][data_type \notin {"wind", "solar", "belpex", "all"}
             => /\ upc = "idle" /\ upc' = "raised"
                /\ UNCHANGED <<inputVars, year, month, dtype, counter, invoked,
                               reported, belVars, wrapVars, archVars>>]_vars

\* update_data("prices") has raised.
C28_Witness ==
    /\ upc = "raised" /\ data_type = "prices"
    /\ invoked = <<>> /\ ~reported

\* import_forecast runs on whenever it can take a step: every GET ends (by an
\* answer or by its timeout) and every sleep is bounded.
SpecForecastFair == SpecForecast /\ WF_vars(NextForecast)

\* The pages the API holds for the day at the offsets of the requests made
\* before the last one.
PagesBeforeLast ==
    [i \in 1..(Len(requests) - 1) |-> ApiPage(date_str, requests[i].offset)]

\* C31: fetch_forecast_day makes its requests at the offsets 0, 100, 200, ...
\* in this order, one per offset; an empty page ends the paging at once; what
\* it returns is the pages of the requests before the last one, all of them
\* non-empty, in the order of the requests; and since the API has an empty
\* page at some offset, every call of it ends, by returning or by raising.
C31_Pagination ==
    /\ [](InFetchForecastDay
            => \A i \in 1..Len(requests) : requests[i].offset = (i - 1) * limit)
    /\ [][(bodyPc = "get" /\ bodyPc' = "request")
             => /\ requests'[Len(requests)].last = "ok"
                /\ ApiPage(date_str, offset).n > 0
                /\ offset' = offset + limit]_vars
    /\ [][(/\ bodyPc = "get" /\ requests'[Len(requests)].last = "ok"
           /\ ApiPage(date_str, offset).n = 0)
             => (bodyPc' = "save" /\ all_records' = all_records)]_vars
    /\ [](bodyPc = "save"
            => /\ requests # <<>>
               /\ all_records = PagesBeforeLast
               /\ \A i \in 1..Len(all_records) : all_records[i].n > 0
               /\ requests[Len(requests)].last = "ok"
                    => ApiPage(date_str, offset).n = 0)
    /\ (bodyPc \in {"request", "get", "http_sleep"})
          ~> (bodyPc \in {"save", "raised"})

\* fetch_forecast_day is about to return for a day of 250 records, after a
\* failed GET: four requests, three pages.
C31_Witness ==
    /\ bodyPc = "save" /\ apiCount[date_str] = 250
    /\ Len(requests) = 4 /\ requests[4].last = "ok" /\ requests[2].gets = 2
    /\ all_records = <<Page(0, 100), Page(100, 100), Page(200, 50)>>

\* C32: in a call of the wrapper, an invocation that returns, or that raises
\* an exception outside allowed_exceptions, is the last thing that happens:
\* no invocation and no sleep follows it, the call has ended, with the value
\* returned in the first case and with the exception raised in the second,
\* whatever is left of _tries.
C32_StopsOnReturnOrOtherFailure ==
    /\ \A i \in 1..Len(events) :
          events[i].ev \in {"returned", "raised_other"}
             => /\ i = Len(events)
                /\ wpc = "done"
                /\ result = IF events[i].ev = "returned" THEN "returned"
                            ELSE "raised"
    /\ (wpc = "done" /\ result = "returned")
          => events[Len(events)].ev = "returned"

\* The second invocation of a call with tries = 4 raised an exception
\* outside allowed_exceptions: the call has ended with two attempts left.
C32_Witness ==
    /\ wpc = "done" /\ result = "raised" /\ tries = 4 /\ _tries = 3
    /\ Len(events) = 5
    /\ events[2].ev = "raised" /\ events[3].ev = "sleep"
    /\ events[5].ev = "raised_other"

(***************************************************************************)
(*        update_data for the wind forecasts, called again and again       *)
(*                                                                         *)
(* Between two calls time passes, and the year directory, which holds      *)
(* working copies, may lose files or go altogether, as in a fresh checkout *)
(* that carries the bundles only.  The JSON files are written by the       *)
(* program alone.                                                          *)
(***************************************************************************)

\* update_data(2024, 2024, 'wind') on 5 March 2024: the months January and
\* February 2024 are fetched.
RunCalls ==
    {[today |-> [year |-> BundleYear, month |-> 3, day |-> 5],
      from_year |-> <<BundleYear>>, to_year |-> <<BundleYear>>,
      data_type |-> "wind"]}

InitRuns ==
    /\ \E c \in RunCalls :
          /\ today = c.today
          /\ from_year = c.from_year /\ to_year = c.to_year
          /\ data_type = c.data_type
    /\ upc = "idle" /\ year = 0 /\ month = 0 /\ dtype = 0
    /\ counter = 0 /\ invoked = <<>> /\ reported = FALSE
    /\ bpc = "none" /\ pending = FALSE /\ csv = FALSE /\ xlsx = "absent"
    /\ download = "absent" /\ popup = "none"
    /\ sessions = 0 /\ opened = 0 /\ exportOutcome = "none"
    /\ bundleBefore = NoBundle

RunFrame ==
    UNCHANGED <<storeVars, fcVars, zipVars, convVars, loadVars, rangeVars,
                latestVars>>

\* update_data is called.
RunCall ==
    /\ UpdateDataCall
    /\ bundleBefore' = bundle
    /\ RunFrame

\* update_data has returned; it will be called again.
RunAgain ==
    /\ upc = "done"
    /\ upc' = "idle"
    /\ year' = 0 /\ month' = 0 /\ dtype' = 0
    /\ counter' = 0 /\ invoked' = <<>> /\ reported' = FALSE
    /\ UNCHANGED <<inputVars, belVars, wrapVars, archVars, runVars>>
    /\ RunFrame

RunTick ==
    /\ Tick
    /\ UNCHANGED <<updVars, wrapVars, runVars>>
    /\ RunFrame

\* Between two calls a working copy is removed, or the whole year directory.
RunDelete ==
    /\ upc = "idle"
    /\ DeleteFile
    /\ UNCHANGED <<updVars, wrapVars, runVars>>
    /\ RunFrame

RunCheckout ==
    /\ upc = "idle"
    /\ RemoveYearDir
    /\ UNCHANGED <<updVars, wrapVars, runVars>>
    /\ RunFrame

NextRuns ==
    \/ RunCall \/ UpdUnzip \/ UpdLoop \/ UpdKind
    \/ UpdCallForecast \/ UpdForecastEnds \/ UpdEnd \/ UpdZip
    \/ RunAgain \/ RunTick \/ RunDelete \/ RunCheckout

RunsInit ==
    /\ InitRuns /\ InitBelpexWrapper /\ InitArchive /\ IdleStore /\ IdleForecast
    /\ IdleZip /\ IdleConvert /\ IdleLoader /\ IdleRange /\ IdleLatest

SpecRuns == RunsInit /\ [][NextRuns]_vars

\* Every member of the bundle a is a member of the bundle b, with the same
\* content.
MembersKept(a, b) ==
    a.exists =>
        /\ b.exists
        /\ \A n \in JsonNames :
              a.members[Arcname(n)].exists
                 => /\ b.members[Arcname(n)].exists
                    /\ b.members[Arcname(n)].content = a.members[Arcname(n)].content

\* C33: every member of the bundle as it was when update_data was called for
\* a forecast kind is a member of the bundle when update_data has ended,
\* with the same content; no step of the run takes a member out of the
\* bundle or changes its content, and the bundle changes in the compaction
\* step only.
C33_BundleMonotonic ==
    /\ [](upc = "done" => MembersKept(bundleBefore, bundle))
    /\ [][MembersKept(bundle, bundle')]_vars
    /\ [][bundle' # bundle => (upc = "zip" /\ upc' = "done")]_vars

\* A run has ended that started from the bundle alone, holding the first
\* day, and that has written the bundle anew with the second day added.
C33_Witness ==
    /\ upc = "done" /\ lastOp = "zip_written"
    /\ bundleBefore.exists /\ bundle # bundleBefore
    /\ bundleBefore.members[Arcname(1)].exists
    /\ ~bundleBefore.members[Arcname(2)].exists
    /\ bundle.members[Arcname(1)] = bundleBefore.members[Arcname(1)]
    /\ bundle.members[Arcname(2)].exists
    /\ yearDir[1].mtime = bundleBefore.members[Arcname(1)].date_time
    /\ yearDir[2].mtime > bundleBefore.mtime

\* The run under way has written no JSON file: every file of the year
\* directory is a file the bundle held when update_data was called.
NoNewJsonFile ==
    \A n \in JsonNames :
        (yearDirExists /\ yearDir[n].exists)
            => bundleBefore.members[Arcname(n)].exists

C35_NoPartialFile ==
    /\ [][\A d \in 1..numDays :
             files'[d] # files[d]
                => /\ bodyPc = "save" /\ d = date_str
                   /\ all_records # <<>>
                   /\ files'[d] = JsonFile(all_records)]_vars
    /\ [](bodyPc \in {"raised", "raised_other"} => ~files[date_str].exists)
    /\ [][(/\ bodyPc = "day" /\ date_str <= numDays
           /\ ~files[date_str].exists)
             => (bodyPc' = "request" /\ date_str' = date_str)]_vars

\* The first attempt raised on the only day of the month, and the second
\* attempt has fetched the three pages of that day anew; no file is there
\* yet.
C35_Witness ==
    /\ numDays = 1 /\ apiCount[1] = 250
    /\ Len(events) = 4 /\ events[2].ev = "raised" /\ events[4].ev = "call"
    /\ bodyPc = "save" /\ date_str = 1
    /\ Len(all_records) = 3
    /\ ~files[1].exists

\* The forecast API fails on every request, and the month has no file.
ApiDownAndNoFiles ==
    /\ apiMode = "down"
    /\ \A d \in 1..numDays : ~files[d].exists

\* C36: with an API that fails on every request and a month without files,
\* a call of import_forecast makes DEFAULT_ATTEMPTS invocations of
\* DEFAULT_ATTEMPTS GETs each, nine in all, every one of them for the first
\* day at offset 0; it writes no file and ends by raising the error of the
\* last GET.
C36_NestedRetries ==
    /\ [](ApiDownAndNoFiles =>
            /\ gets <= DEFAULT_ATTEMPTS * DEFAULT_ATTEMPTS
            /\ InFetchForecastDay => (date_str = 1 /\ offset = 0)
            /\ \A i \in 1..Len(requests) :
                  /\ requests[i].offset = 0
                  /\ requests[i].last \in {"none", "error"}
            /\ wpc = "done" =>
                  /\ gets = DEFAULT_ATTEMPTS * DEFAULT_ATTEMPTS
                  /\ Attempts = DEFAULT_ATTEMPTS
                  /\ result = "raised"
                  /\ events[Len(events)] = EndEvent("raised")
                  /\ requests[Len(requests)].gets = DEFAULT_ATTEMPTS)
    /\ [][ApiDownAndNoFiles => files' = files]_vars

\* The call for a month of two days has ended, with the API down all along.
C36_Witness ==
    /\ wpc = "done" /\ result = "raised"
    /\ apiMode = "down" /\ numDays = MaxDays
    /\ \A d \in 1..numDays : ~files[d].exists
    /\ gets = 9 /\ Attempts = 3 /\ date_str = 1

(***************************************************************************)
(*   import_belpex of the earlier revision (src/data_import_tools.py),     *)
(*   which exports CSV, under its wrapper retry_on_failure(tries=3,        *)
(*   delay=5).  download is the file BelpexFilter.csv of the download      *)
(*   directory, csv the file Belpex_<year><month>.csv.                     *)
(***************************************************************************)

InitLegacy ==
    /\ tries = 3 /\ delay = 5 /\ backoff = 1
    /\ _tries = tries /\ _delay = delay
    /\ wpc = "idle" /\ bodyPc = "idle" /\ events = <<>> /\ result = "none"
    /\ csv \in BOOLEAN
    /\ download \in {"absent", "stale"}
    /\ bpc = "none" /\ sessions = 0 /\ opened = 0
    /\ pending = FALSE /\ xlsx = "absent" /\ popup = "none"
    /\ exportOutcome = "none"
    /\ upc = "idle" /\ year = 0 /\ month = 0 /\ dtype = 0
    /\ counter = 0 /\ invoked = <<>> /\ reported = FALSE
    /\ today = [year |-> 0, month |-> 0, day |-> 0]
    /\ from_year = <<>> /\ to_year = <<>> /\ data_type = "belpex"

\* What the steps of the body leave alone.
LegacyFrame ==
    UNCHANGED <<tries, delay, backoff, _tries, _delay, wpc, events, result,
                inputVars, loopVars, pending, xlsx, popup, exportOutcome,
                storeVars, fcVars, archVars, zipVars, convVars, loadVars,
                rangeVars, runVars, latestVars>>

\* os.makedirs(download_dir); driver = webdriver.Chrome(options=options): a
\* browser session is started, or the call raises.
LegacyChrome ==
    /\ bodyPc = "start"
    /\ \/ /\ sessions' = sessions + 1
          /\ opened' = opened + 1
          /\ bodyPc' = "running"
          /\ bpc' = "cleanup"
       \/ /\ bodyPc' = "raised"
          /\ UNCHANGED <<sessions, opened, bpc>>
    /\ UNCHANGED <<csv, download>>
    /\ LegacyFrame

\* A leftover BelpexFilter.csv is removed; if new_filename in
\* os.listdir(download_dir): pass, and the function ends.
LegacyCleanup ==
    /\ bodyPc = "running" /\ bpc = "cleanup"
    /\ download' = "absent"
    /\ IF csv
       THEN bodyPc' = "returned" /\ bpc' = "none"
       ELSE bpc' = "get" /\ UNCHANGED bodyPc
    /\ UNCHANGED <<csv, sessions, opened>>
    /\ LegacyFrame

\* driver.get(...): the page is loaded, or the call raises.
LegacyGet ==
    /\ bodyPc = "running" /\ bpc = "get"
    /\ \/ bpc' = "show" /\ UNCHANGED bodyPc
       \/ bodyPc' = "raised" /\ bpc' = "none"
    /\ UNCHANGED <<csv, download, sessions, opened>>
    /\ LegacyFrame

\* The wait for the date fields, the dates, the click on "Show data", the
\* wait for the table: a wait that times out raises.
LegacyShowData ==
    /\ bodyPc = "running" /\ bpc = "show"
    /\ \/ bpc' = "export" /\ UNCHANGED bodyPc
       \/ bodyPc' = "raised" /\ bpc' = "none"
    /\ UNCHANGED <<csv, download, sessions, opened>>
    /\ LegacyFrame

\* The wait for the export button, the click, time.sleep(5): the file has
\* landed or it has not, or the wait times out and raises.
LegacyExport ==
    /\ bodyPc = "running" /\ bpc = "export"
    /\ \/ /\ download' \in {"absent", "data"}
          /\ bpc' = "rename"
          /\ UNCHANGED bodyPc
       \/ /\ bodyPc' = "raised" /\ bpc' = "none"
          /\ UNCHANGED download
    /\ UNCHANGED <<csv, sessions, opened>>
    /\ LegacyFrame

\* if "BelpexFilter.csv" in os.listdir(download_dir): os.rename(...), else a
\* message; then driver.quit(), and the function ends.
LegacyRenameAndQuit ==
    /\ bodyPc = "running" /\ bpc = "rename"
    /\ IF download # "absent"
       THEN csv' = TRUE /\ download' = "absent"
       ELSE UNCHANGED <<csv, download>>
    /\ sessions' = sessions - 1
    /\ bodyPc' = "returned" /\ bpc' = "none"
    /\ UNCHANGED opened
    /\ LegacyFrame

LgChrome    == LegacyChrome
LgCleanup   == LegacyCleanup
LgGet       == LegacyGet
LgShowData  == LegacyShowData
LgExport    == LegacyExport
LgRename    == LegacyRenameAndQuit
LgCall      == wpc = "idle" /\ WrapperEnter /\ BelpexWrapperFrame
LgInvoke    == WrapperInvoke /\ BelpexWrapperFrame
LgReturn    == WrapperReturn /\ BelpexWrapperFrame
LgExcept    == WrapperExcept /\ BelpexWrapperFrame
LgSleep     == WrapperSleep /\ BelpexWrapperFrame
LgPropagate == WrapperPropagate /\ BelpexWrapperFrame

NextLegacy ==
    \/ LgCall \/ LgInvoke \/ LgReturn \/ LgExcept \/ LgSleep \/ LgPropagate
    \/ LgChrome \/ LgCleanup \/ LgGet \/ LgShowData \/ LgExport \/ LgRename

LegacyInit ==
    /\ InitLegacy /\ IdleStore /\ IdleForecast /\ IdleArchive /\ IdleZip
    /\ IdleConvert /\ IdleLoader /\ IdleRange /\ IdleRuns /\ IdleLatest

SpecLegacy == LegacyInit /\ [][NextLegacy]_vars

\* C37: in the earlier revision of import_belpex no browser session is open
\* once the body has returned or raised, whether the month's CSV file was
\* there already or a wait timed out.
C37_LegacySessionTeardown ==
    bodyPc \in {"returned", "raised"} => sessions = 0

\* Some column of the row's natural key is NULL.
HasNullKeyColumn(m, row) == \E c \in UniqueColumns(m) : IsNull(c, row[c])

\* C38: a forecast row with a NULL in a column of its natural key that is
\* stored already is not stored a second time: an insert_batch call that
\* offers it again adds no row for it.
C38_DedupWithNullKey ==
    model = "WindData" =>
        \A rec \in Records(model), envFails \in BOOLEAN :
            (/\ ~rec.malformed
             /\ HasNullKeyColumn(model, StoredRow(rec))
             /\ \E j \in 1..Len(table) : table[j] = StoredRow(rec))
                => insert_batch(model, table, <<rec>>, envFails).table = table

(***************************************************************************)
(*  get_latest_available_year_month as a function of the date it is given  *)
(*                                                                         *)
(* The function reads today.day, today.month and today.year and nothing    *)
(* else.  It is applied to every date of three years in a row, a leap year *)
(* among them.  The lines of update_data in the older data_import_tools.py *)
(* compute the same pair in the same way.                                  *)
(***************************************************************************)
LatestYears == {2024, 2025, 2026}

LatestTodays ==
    {t \in [year : LatestYears, month : 1..12, day : 1..31] :
        t.day <= DaysInMonth(t.year, t.month)}

InitLatest ==
    /\ arg_today \in LatestTodays
    /\ gpc = "idle" /\ returned_period = <<>>

LatestFrame ==
    UNCHANGED <<storeVars, wrapVars, fcVars, archVars, zipVars, updVars,
                convVars, loadVars, rangeVars, runVars>>

\* get_latest_available_year_month(today) is called and returns.
GetLatest ==
    /\ gpc = "idle"
    /\ returned_period' = get_latest_available_year_month(arg_today)
    /\ gpc' = "returned"
    /\ UNCHANGED arg_today
    /\ LatestFrame

NextLatest == GetLatest

LatestInit ==
    /\ InitLatest /\ IdleStore /\ IdleWrapper /\ IdleForecast /\ IdleArchive
    /\ IdleZip /\ IdleUpdate /\ IdleConvert /\ IdleLoader /\ IdleRange /\ IdleRuns

SpecLatest == LatestInit /\ [][NextLatest]_vars

\* The months counted from year 0.
MonthIndex(p) == 12 * p.year + p.month

C40_PopupClosedBeforeExport ==
    bpc = "export" => popup # "shown"

=============================================================================
